---- MODULE Spec2Model ----
(***************************************************************************)
(* FlashLoanArbitrage (src/contracts/interfaces/IFlashLoanReceiverV3.sol)  *)
(* together with the lender MockAavePool and the venue                     *)
(* MockUniswapV2Router02.  One action per externally callable function;    *)
(* a transaction is one atomic step, a revert discards every write of the  *)
(* reverted call frame.                                                    *)
(*                                                                         *)
(* The orchestrator scripts are modelled next to the chain: the risk gate   *)
(* and bundle submission of scripts/weth-dai-arbitrage.js (SpecBot) and the  *)
(* polling loop of scripts/arbitrage.js (SpecMonitor); SpecRounding applies  *)
(* the contract's two tolerance checks on their own.  The 'block' listeners   *)
(* and the detection cycle of weth-dai-arbitrage.js are SpecListener, its    *)
(* calculateProfit on its own SpecSizer, withBackoff of                      *)
(* arbitrage-bot/index.js SpecBackoff, and the PriceMonitor class            *)
(* SpecPriceMonitor.  SpecPriceMonitorLoop is the start/stop loop of the     *)
(* PriceMonitor, SpecMain the main() of weth-dai-arbitrage.js with its       *)
(* restarts, SpecLoop the main loop of arbitrage-bot/index.js.  SpecAdmin    *)
(* is the contract under its setters, emergencyWithdraw and calls from       *)
(* arbitrary senders; SpecGates sets the off-chain profit test of            *)
(* scripts/arbitrage.js against the contract's settlement.                   *)
(*                                                                         *)
(* Amounts are scaled: WAD stands for the 1e18 fixed-point unit of the     *)
(* router's rates, so that all products stay inside TLC's integers.        *)
(***************************************************************************)
EXTENDS Integers, Sequences, FiniteSets, TLC

\* ---------------------------------------------------------------- bounds
MaxBlock == 4
DeployBlock == 1
MaxTrades == 2
MaxQuote == 120
MaxGateProfit == 6
MaxExecutions == 4
MaxTime == 300
MaxSent == 3
MaxCycles == 2
MaxRetries == 5
MaxUpdates == 3
MaxMainRuns == 3
MaxIterations == 4

\* ------------------------------------------------------ program constants
MAX_BPS == 10000
MIN_EXECUTION_DELAY == 2
WAD == 100
FlashLoanPremium == 0
DefaultMaxPriceDeviation == 500
DefaultMaxSlippage == 100
DeployMaxFlashLoanAmount == 200
DeployMinProfitBps == 100
UINT_MAX == 1000000
InitialBalance == 1000
GasPerExecution == 1

\* ------------------------------------------------------------- universes
NoToken == "0x0"
Tokens == {"TKA", "WETH"}
WETH == "WETH"
Assets == {"TKA"}
Holders == {"arb", "pool", "router"}
Accounts == {"owner", "user1"}
Amounts == {0, 100, 250}
PriceInputs ==
    ({<<"TKA", "WETH">>} \X {100, 102, 110, 200}) \cup ({<<"WETH", "TKA">>} \X {100})
SlippageValues == {0, 100, 500}
ProfitBpsValues == {100, 500, 10000}
Shortfalls == {0, 6}
RouterKinds == {"mock", "external"}
UndefinedFunctions == {"pause", "unpause"}
RoundingSlippages == {1, 33, 100, 250, 500, 3333, 9999}
GateOwed == {1, 99, 100, 101, 250}
GateBps == {1, 100, 500, 9999}
TickSeconds == 150
MonitorPairs == <<[token0 |-> "TKA", token1 |-> "WETH"],
                 [token0 |-> "WETH", token1 |-> "TKA"]>>
testAmounts == <<100, 250>>
MonitorPrices == ({<<"TKA", "WETH">>} \X {100, 110}) \cup ({<<"WETH", "TKA">>} \X {100, 102})
PairNames == {"WETH/DAI", "LINK/ETH"}
OptimalSizes == {10, 60}
LiquidityValues == {800000, 2000000}
GasPrices == {[t |-> "bigint", v |-> 1], [t |-> "number", v |-> 1]}
Opportunities ==
    [optimalSize : OptimalSizes, liquidityUSD : LiquidityValues,
     gasPrice : GasPrices, profit : {7}]
Environments ==
    { [prepare |-> "throws", firstRevert |-> FALSE, send |-> "ok", bundleInclusion |-> 0],
      [prepare |-> "ok", firstRevert |-> TRUE, send |-> "ok", bundleInclusion |-> 0],
      [prepare |-> "ok", firstRevert |-> FALSE, send |-> "throws", bundleInclusion |-> 0],
      [prepare |-> "ok", firstRevert |-> FALSE, send |-> "ok", bundleInclusion |-> 0],
      [prepare |-> "ok", firstRevert |-> FALSE, send |-> "ok", bundleInclusion |-> 1] }

\* What a provider call can fail with, by the text of its message.
ProviderErrors == {"rate limit", "other"}
\* What the four getReserves calls of one cycle return, in whole tokens:
\* reserves now and one block earlier on both venues.
ReserveReadings ==
    { [uni |-> <<1000, 2000000>>, sushi |-> <<1000, 2000000>>, uniPrev |-> 1000, sushiPrev |-> 1000],
      [uni |-> <<1000, 2000000>>, sushi |-> <<1000, 2002000>>, uniPrev |-> 1000, sushiPrev |-> 1000],
      [uni |-> <<1000, 2000000>>, sushi |-> <<1000, 2030000>>, uniPrev |-> 1000, sushiPrev |-> 1000],
      [uni |-> <<1000, 2000000>>, sushi |-> <<1000, 2030000>>, uniPrev |-> 900, sushiPrev |-> 1000],
      [uni |-> <<0, 2000000>>, sushi |-> <<1000, 2030000>>, uniPrev |-> 0, sushiPrev |-> 1000] }
NoReading == [uni |-> <<0, 0>>, sushi |-> <<0, 0>>, uniPrev |-> 0, sushiPrev |-> 0]
\* feeData.maxFeePerGas of a cycle, in gwei.
FeeData == {30, 200}
\* Arguments of calculateProfit taken on its own: the two prices and the gas
\* cost in whole USD, the smaller reserve in whole tokens.
SizerPrices == {2000, 2002, 2030, 2060}
GasCosts == {0, 1, 5, 20}
SizerReserves == {10, 1000}

\* What a wrapped exchange call can throw: the name of the ccxt error class
\* and whether its message is the restricted-location one.
VenueErrors ==
    { [name |-> "RateLimitExceeded", restricted |-> FALSE],
      [name |-> "RequestTimeout", restricted |-> FALSE],
      [name |-> "ExchangeNotAvailable", restricted |-> FALSE],
      [name |-> "ExchangeNotAvailable", restricted |-> TRUE],
      [name |-> "AuthenticationError", restricted |-> FALSE] }

\* The exchanges handed to PriceMonitor, in the order of Object.entries.
Exchanges == <<"binance", "kraken">>
\* What fetchTicker can resolve to.
Tickers ==
    { [bid |-> 1995, ask |-> 2000], [bid |-> 2005, ask |-> 2010],
      [bid |-> 2010, ask |-> 2015], [bid |-> 2011, ask |-> 2016] }
\* minProfitPercent arguments of findArbitrageOpportunities, in tenths of a
\* percent: the default 0.5 and 1.
MinProfitPercents == {5, 10}

VARIABLES
    blockNumber,
    routerKind,
    rates,
    bal,
    allowance,
    poolApprovals,
    intermediateToken,
    maxPriceDeviation,
    maxSlippage,
    minProfitBps,
    maxFlashLoanAmount,
    lastExecutionTime,
    totalProfitGenerated,
    totalGasUsed,
    successfulTrades,
    failedTrades,
    lastKnownPrice,
    paused,
    lastAttempt,
    lastCall,
    calc,
    bot,
    lastExec,
    audit,
    now,
    monitor,
    handlers,
    backoff,
    pm,
    sizing

contractVars == <<intermediateToken, maxPriceDeviation, maxSlippage, minProfitBps,
                  maxFlashLoanAmount, lastExecutionTime, totalProfitGenerated,
                  totalGasUsed, successfulTrades, failedTrades, lastKnownPrice, paused>>

ledgerVars == <<bal, allowance>>

\* The chain: the three contracts, the tokens, the block number and the record
\* of the latest transaction.
onchainVars == <<blockNumber, routerKind, rates, bal, allowance, poolApprovals,
                 intermediateToken, maxPriceDeviation, maxSlippage, minProfitBps,
                 maxFlashLoanAmount, lastExecutionTime, totalProfitGenerated,
                 totalGasUsed, successfulTrades, failedTrades, lastKnownPrice,
                 paused, lastAttempt, lastCall>>

\* Everything that lives outside the chain.
offchainVars == <<calc, bot, lastExec, audit, now, monitor, handlers, backoff, pm, sizing>>

\* The block-driven monitor, the retry wrapper, the price monitor and the
\* trade sizer.
feedVars == <<handlers, backoff, pm, sizing>>

vars == <<onchainVars, offchainVars>>

\* The whole ledger as one value, threaded through the call frames of a
\* transaction.
World ==
    [ rates |-> rates, bal |-> bal, allowance |-> allowance,
      poolApprovals |-> poolApprovals,
      intermediateToken |-> intermediateToken,
      maxPriceDeviation |-> maxPriceDeviation, maxSlippage |-> maxSlippage,
      minProfitBps |-> minProfitBps, maxFlashLoanAmount |-> maxFlashLoanAmount,
      lastExecutionTime |-> lastExecutionTime,
      totalProfitGenerated |-> totalProfitGenerated,
      totalGasUsed |-> totalGasUsed, successfulTrades |-> successfulTrades,
      failedTrades |-> failedTrades, lastKnownPrice |-> lastKnownPrice,
      paused |-> paused ]

\* ---------------------------------------------------------------- errors
Err(sig, msg) == [sig |-> sig, msg |-> msg, innerSig |-> "", innerMsg |-> ""]

NoErr == Err("", "")

\* revert(string(reason)): the caught revert data is re-thrown as the text of
\* a plain Error(string); the selector seen by the caller is Error(string).
WrapAsString(reason) ==
    [sig |-> "Error", msg |-> "", innerSig |-> reason.sig, innerMsg |-> reason.msg]

\* The selector and text of the revert that started the abort.
CauseSig(e) == IF e.innerSig # "" THEN e.innerSig ELSE e.sig

CauseMsg(e) == IF e.innerSig # "" THEN e.innerMsg ELSE e.msg

\* ------------------------------------------------------- call-frame results
Obs0 ==
    [ quoted1 |-> -1, minOut1 |-> -1, received1 |-> -1,
      quoted2 |-> -1, minOut2 |-> -1, received2 |-> -1,
      owed |-> -1, profit |-> -1, pulled |-> -1 ]

Ok(w, val, tr, obs) == [ok |-> TRUE, w |-> w, val |-> val, err |-> NoErr, tr |-> tr, obs |-> obs]

Fail(w, err, tr, obs) == [ok |-> FALSE, w |-> w, val |-> 0, err |-> err, tr |-> tr, obs |-> obs]

\* Evaluate x once and continue with its value.
Bind(x, K(_)) == CHOOSE y \in {K(v) : v \in {x}} : TRUE

\* ------------------------------------------------------------ ERC20 tokens
\* Balances and allowances of the ERC20 tokens (IERC20): transfer needs the
\* balance, transferFrom needs balance and allowance; an allowance of UINT_MAX
\* is not consumed.
balanceOf(w, t, a) == w.bal[t][a]

TokenApprove(w, t, owner, spender, amt) ==
    [w EXCEPT !.allowance[t][<<owner, spender>>] = amt]

TokenTransfer(w, t, from, to, amt) ==
    IF w.bal[t][from] < amt
    THEN [ok |-> FALSE, w |-> w]
    ELSE [ok |-> TRUE,
          w |-> [w EXCEPT !.bal[t][from] = @ - amt, !.bal[t][to] = @ + amt]]

TokenTransferFrom(w, t, spender, from, to, amt) ==
    LET a == w.allowance[t][<<from, spender>>]
    IN  IF a < amt \/ w.bal[t][from] < amt
        THEN [ok |-> FALSE, w |-> w]
        ELSE [ok |-> TRUE,
              w |-> [w EXCEPT !.allowance[t][<<from, spender>>] =
                                  IF a = UINT_MAX THEN a ELSE a - amt,
                              !.bal[t][from] = @ - amt,
                              !.bal[t][to] = @ + amt]]

\* ------------------------------------------------------------------ venue
\* MockUniswapV2Router02.getAmountsOut for a two-token path.
getAmountsOut(w, amountIn, tin, tout) ==
    LET rate == IF <<tin, tout>> \in DOMAIN w.rates THEN w.rates[<<tin, tout>>]
                ELSE 0
    IN  IF rate = 0
        THEN [ok |-> FALSE, val |-> 0, err |-> Err("Error", "Rate not set")]
        ELSE [ok |-> TRUE, val |-> (amountIn * rate) \div WAD, err |-> NoErr]

\* The two token movements of a swap that delivers `out`.
SwapTransfers(w, sender, amountIn, tin, tout, to, out) ==
    Bind(TokenTransferFrom(w, tin, "router", sender, "router", amountIn), LAMBDA pull :
        IF ~pull.ok
        THEN [ok |-> FALSE, w |-> w, val |-> 0,
              err |-> Err("Error", "Transfer of input token failed")]
        ELSE Bind(TokenTransfer(pull.w, tout, "router", to, out), LAMBDA push :
            IF ~push.ok
            THEN [ok |-> FALSE, w |-> w, val |-> 0,
                  err |-> Err("Error", "Transfer of output token failed")]
            ELSE [ok |-> TRUE, w |-> push.w, val |-> out, err |-> NoErr]))

\* MockUniswapV2Router02.swapExactTokensForTokens, msg.sender = sender.
swapExactTokensForTokens(w, sender, amountIn, amountOutMin, tin, tout, to) ==
    LET rate == w.rates[<<tin, tout>>]
        out  == (amountIn * rate) \div WAD
    IN  IF rate = 0
        THEN [ok |-> FALSE, w |-> w, val |-> 0, err |-> Err("Error", "Rate not set")]
        ELSE IF out < amountOutMin
        THEN [ok |-> FALSE, w |-> w, val |-> 0,
              err |-> Err("Error", "Insufficient output amount")]
        ELSE SwapTransfers(w, sender, amountIn, tin, tout, to, out)

\* Any other implementation of IUniswapV2Router02 the contract may be
\* deployed against: it delivers `shortfall` units less than it quoted and
\* does not enforce amountOutMin itself.
externalSwap(w, sender, amountIn, amountOutMin, tin, tout, to, shortfall) ==
    LET rate == w.rates[<<tin, tout>>]
        full == (amountIn * rate) \div WAD
        out  == IF full > shortfall THEN full - shortfall ELSE 0
    IN  IF rate = 0
        THEN [ok |-> FALSE, w |-> w, val |-> 0, err |-> Err("Error", "Rate not set")]
        ELSE SwapTransfers(w, sender, amountIn, tin, tout, to, out)

\* uniswapRouter.swapExactTokensForTokens: the router fixed at construction.
uniswapRouter(w, kind, sender, amountIn, amountOutMin, tin, tout, to, shortfall) ==
    IF kind = "mock"
    THEN swapExactTokensForTokens(w, sender, amountIn, amountOutMin, tin, tout, to)
    ELSE externalSwap(w, sender, amountIn, amountOutMin, tin, tout, to, shortfall)

\* ------------------------------------------------- FlashLoanArbitrage helpers
\* Variant: the tolerance is applied as one rounded-down product.
_calculateMinAmountOut_floor(w, amount) ==
    (amount * (MAX_BPS - w.maxSlippage)) \div MAX_BPS

_calculateMinAmountOut(w, amount) ==
    amount - ((amount * w.maxSlippage) \div MAX_BPS)

_calculateSlippage(expected, actual) ==
    IF actual >= expected THEN 0
    ELSE ((expected - actual) * MAX_BPS) \div expected

\* Variant: the price that passed the check is not recorded.
_checkPriceDeviation_noRecord(w, asset) ==
    Bind(getAmountsOut(w, WAD, asset, WETH), LAMBDA q :
        LET cur  == q.val
            last == w.lastKnownPrice[asset]
        IN  IF ~q.ok THEN [ok |-> FALSE, w |-> w, val |-> 0, err |-> q.err]
            ELSE IF last # 0 /\ _calculateSlippage(last, cur) > w.maxPriceDeviation
            THEN [ok |-> FALSE, w |-> w, val |-> cur, err |-> Err("PriceDeviation", "")]
            ELSE [ok |-> TRUE, w |-> w, val |-> cur, err |-> NoErr])

_checkPriceDeviation(w, asset) ==
    Bind(getAmountsOut(w, WAD, asset, WETH), LAMBDA q :
        LET cur  == q.val
            last == w.lastKnownPrice[asset]
        IN  IF ~q.ok THEN [ok |-> FALSE, w |-> w, val |-> 0, err |-> q.err]
            ELSE IF last # 0 /\ _calculateSlippage(last, cur) > w.maxPriceDeviation
            THEN [ok |-> FALSE, w |-> w, val |-> cur, err |-> Err("PriceDeviation", "")]
            ELSE [ok |-> TRUE, w |-> [w EXCEPT !.lastKnownPrice[asset] = cur],
                  val |-> cur, err |-> NoErr])

_calculateEstimatedProfit(w, asset, amount) ==
    Bind(getAmountsOut(w, amount, asset, w.intermediateToken), LAMBDA first :
        IF ~first.ok THEN [ok |-> FALSE, val |-> 0, err |-> first.err]
        ELSE Bind(getAmountsOut(w, first.val, w.intermediateToken, asset), LAMBDA second :
            IF ~second.ok THEN [ok |-> FALSE, val |-> 0, err |-> second.err]
            ELSE [ok |-> TRUE,
                  val |-> IF second.val > amount THEN second.val - amount ELSE 0,
                  err |-> NoErr]))

_setupFlashLoan(w, asset, amount) ==
    TokenApprove(TokenApprove(w, asset, "arb", "pool", 0),
                 asset, "arb", "pool", amount * 2)

\* ------------------------------------------------------- settlement frames
\* A frame result carries the ledger at the point where the frame ended (for a
\* failed frame: the writes the revert discards), the revert data, the steps
\* reached (tr) and the values observed on the way (obs).

\* Variant: leg 1 without the check of the returned amount.
_executeFirstTrade_noCheck(w, kind, asset, amount, sf, tr, obs) ==
    Bind(getAmountsOut(w, amount, asset, w.intermediateToken), LAMBDA q :
        IF ~q.ok THEN Fail(w, q.err, tr, obs)
        ELSE Bind(_calculateMinAmountOut(w, q.val), LAMBDA minOut :
             Bind(uniswapRouter(w, kind, "arb", amount, minOut, asset,
                                w.intermediateToken, "arb", sf), LAMBDA sw :
                LET obs1 == [obs EXCEPT !.quoted1 = q.val, !.minOut1 = minOut]
                    obs2 == [obs1 EXCEPT !.received1 = sw.val]
                IN  IF ~sw.ok THEN Fail(w, sw.err, tr, obs1)
                    ELSE Ok(sw.w, sw.val, Append(tr, "Leg1Executed"), obs2))))

_executeFirstTrade(w, kind, asset, amount, sf, tr, obs) ==
    Bind(getAmountsOut(w, amount, asset, w.intermediateToken), LAMBDA q :
        IF ~q.ok THEN Fail(w, q.err, tr, obs)
        ELSE Bind(_calculateMinAmountOut(w, q.val), LAMBDA minOut :
             Bind(uniswapRouter(w, kind, "arb", amount, minOut, asset,
                                w.intermediateToken, "arb", sf), LAMBDA sw :
                LET obs1 == [obs EXCEPT !.quoted1 = q.val, !.minOut1 = minOut]
                    obs2 == [obs1 EXCEPT !.received1 = sw.val]
                IN  IF ~sw.ok THEN Fail(w, sw.err, tr, obs1)
                    ELSE IF sw.val < minOut
                    THEN Fail(sw.w, Err("ExcessiveSlippage", ""), tr, obs2)
                    ELSE Ok(sw.w, sw.val, Append(tr, "Leg1Executed"), obs2))))

_executeSecondTrade(w, kind, asset, amount, minimumReturn, sf, tr, obs) ==
    Bind(getAmountsOut(w, amount, w.intermediateToken, asset), LAMBDA q :
        IF ~q.ok THEN Fail(w, q.err, tr, obs)
        ELSE Bind(_calculateMinAmountOut(w, q.val), LAMBDA minOut :
            LET obs1 == [obs EXCEPT !.quoted2 = q.val, !.minOut2 = minOut]
            IN  IF minOut < minimumReturn
                THEN Fail(w, Err("InsufficientProfit", ""), tr, obs1)
                ELSE Bind(uniswapRouter(w, kind, "arb", amount, minOut,
                                        w.intermediateToken, asset, "arb", sf), LAMBDA sw :
                    IF ~sw.ok THEN Fail(w, sw.err, tr, obs1)
                    ELSE Ok(sw.w, sw.val, Append(tr, "Leg2Executed"),
                            [obs1 EXCEPT !.received2 = sw.val]))))

\* Variant: the gate compares against amountOwed without the minProfitBps
\* factor.
ProfitTooLow_noBps(w, profit, amountOwed) ==
    profit * MAX_BPS < amountOwed

\* The profit gate of _executeArbitrage: TRUE when the settlement is rejected.
ProfitTooLow(w, profit, amountOwed) ==
    profit * MAX_BPS < amountOwed * w.minProfitBps

_executeArbitrage(w, kind, sender, asset, amount, amountOwed, sf1, sf2, tr, obs) ==
    IF sender # "arb"
    THEN Fail(w, Err("UnauthorizedCaller", ""), tr, obs)
    ELSE Bind(_executeFirstTrade(w, kind, asset, amount, sf1, tr,
                                 [obs EXCEPT !.owed = amountOwed]), LAMBDA t1 :
        IF ~t1.ok THEN t1
        ELSE Bind(_executeSecondTrade(t1.w, kind, asset, t1.val, amountOwed, sf2,
                                      t1.tr, t1.obs), LAMBDA t2 :
            LET profit == t2.val - amountOwed
                obs3   == [t2.obs EXCEPT !.profit = profit]
            IN  IF ~t2.ok THEN t2
                ELSE IF t2.val < amountOwed
                THEN Fail(t2.w, Err("Panic", "0x11"), t2.tr, t2.obs)
                ELSE IF ProfitTooLow(t2.w, profit, amountOwed)
                THEN Fail(t2.w, Err("InsufficientProfit", ""), t2.tr, obs3)
                ELSE Ok([t2.w EXCEPT !.totalProfitGenerated = @ + profit], TRUE,
                        Append(t2.tr, "ProfitVerified"), obs3)))

\* Variant: the initiator is not looked at.
CallerAuthorized_poolOnly(sender, lendingPool, initiator) == sender = lendingPool

\* The two caller checks of executeOperation: msg.sender is the lending pool
\* and the loan was initiated by the contract itself.
CallerAuthorized(sender, lendingPool, initiator) ==
    sender = lendingPool /\ initiator = "arb"

\* Variant: the catch block records the failure and returns true instead of
\* reverting.
executeOperation_swallow(w, kind, sender, lendingPool, asset, amount, premium, initiator, sf1, sf2, tr, obs) ==
    IF sender # lendingPool
    THEN Fail(w, Err("UnauthorizedCaller", ""), tr, obs)
    ELSE IF initiator # "arb"
    THEN Fail(w, Err("UnauthorizedCaller", ""), tr, obs)
    ELSE Bind(_executeArbitrage(w, kind, "arb", asset, amount, amount + premium,
                                sf1, sf2, tr, obs), LAMBDA inner :
        IF ~inner.ok
        THEN Ok([w EXCEPT !.failedTrades = @ + 1], TRUE, inner.tr, inner.obs)
        ELSE Ok([inner.w EXCEPT !.successfulTrades = @ + 1,
                                !.totalGasUsed = @ + GasPerExecution],
                inner.val, inner.tr, inner.obs))

\* try this._executeArbitrage(...) catch: the writes of the failed inner call
\* are gone, the catch block runs on the ledger as it was at the call.
executeOperation(w, kind, sender, lendingPool, asset, amount, premium, initiator, sf1, sf2, tr, obs) ==
    IF ~CallerAuthorized(sender, lendingPool, initiator)
    THEN Fail(w, Err("UnauthorizedCaller", ""), tr, obs)
    ELSE Bind(_executeArbitrage(w, kind, "arb", asset, amount, amount + premium,
                                sf1, sf2, tr, obs), LAMBDA inner :
        IF ~inner.ok
        THEN Fail([w EXCEPT !.failedTrades = @ + 1], WrapAsString(inner.err),
                  inner.tr, inner.obs)
        ELSE Ok([inner.w EXCEPT !.successfulTrades = @ + 1,
                                !.totalGasUsed = @ + GasPerExecution],
                inner.val, inner.tr, inner.obs))

\* MockAavePool.isApproved
isApproved(w, token, spender) ==
    w.poolApprovals[token] /\ w.allowance[token][<<"pool", spender>>] > 0

\* Variant: the pool does not pull the loan back.
flashLoanSimple_noPull(w, kind, sender, receiverAddress, asset, amount, sf1, sf2, tr, obs) ==
    IF ~isApproved(w, asset, receiverAddress)
    THEN Fail(w, Err("Error", "MockAavePool: receiver not approved"), tr, obs)
    ELSE IF balanceOf(w, asset, "pool") < amount
    THEN Fail(w, Err("Error", "Insufficient balance"), tr, obs)
    ELSE Bind(TokenTransfer(w, asset, "pool", receiverAddress, amount), LAMBDA lend :
        IF ~lend.ok
        THEN Fail(w, Err("Error", "Transfer to receiver failed"), tr, obs)
        ELSE Bind(executeOperation(lend.w, kind, "pool", "pool", asset, amount,
                                   FlashLoanPremium, sender, sf1, sf2,
                                   Append(tr, "Borrowed"), obs), LAMBDA op :
            IF ~op.ok THEN op
            ELSE IF ~op.val
            THEN Fail(op.w, Err("Error", "Flash loan execution failed"), op.tr, op.obs)
            ELSE Ok(op.w, TRUE, Append(op.tr, "Repaid"),
                    [op.obs EXCEPT !.pulled = 0])))

\* MockAavePool.flashLoanSimple, msg.sender = sender.
flashLoanSimple(w, kind, sender, receiverAddress, asset, amount, sf1, sf2, tr, obs) ==
    IF ~isApproved(w, asset, receiverAddress)
    THEN Fail(w, Err("Error", "MockAavePool: receiver not approved"), tr, obs)
    ELSE IF balanceOf(w, asset, "pool") < amount
    THEN Fail(w, Err("Error", "Insufficient balance"), tr, obs)
    ELSE Bind(TokenTransfer(w, asset, "pool", receiverAddress, amount), LAMBDA lend :
        IF ~lend.ok
        THEN Fail(w, Err("Error", "Transfer to receiver failed"), tr, obs)
        ELSE Bind(executeOperation(lend.w, kind, "pool", "pool", asset, amount,
                                   FlashLoanPremium, sender, sf1, sf2,
                                   Append(tr, "Borrowed"), obs), LAMBDA op :
            IF ~op.ok THEN op
            ELSE IF ~op.val
            THEN Fail(op.w, Err("Error", "Flash loan execution failed"), op.tr, op.obs)
            ELSE Bind(TokenTransferFrom(op.w, asset, "pool", receiverAddress, "pool",
                                        amount), LAMBDA repay :
                IF ~repay.ok
                THEN Fail(op.w, Err("Error", "Repayment failed"), op.tr, op.obs)
                ELSE Ok(repay.w, TRUE, Append(op.tr, "Repaid"),
                        [op.obs EXCEPT !.pulled = amount]))))

\* Variant: the next block is far enough.
TooSoon_oneBlock(w, blk) == blk - w.lastExecutionTime < 1

\* The spacing test of initiateFlashLoan: TRUE when the call is rejected.
TooSoon(w, blk) == blk - w.lastExecutionTime < MIN_EXECUTION_DELAY

\* Variant: the maximum itself is rejected.
ExceedsMaximum_orEqual(w, amount) == amount >= w.maxFlashLoanAmount

\* The size limit of initiateFlashLoan: TRUE when the amount is rejected.
ExceedsMaximum(w, amount) == amount > w.maxFlashLoanAmount

\* FlashLoanArbitrage.initiateFlashLoan at block blk, msg.sender = sender.
initiateFlashLoan(w, kind, sender, asset, amount, blk, sf1, sf2) ==
    IF w.paused
    THEN Fail(w, Err("Error", "Pausable: paused"), <<>>, Obs0)
    ELSE IF w.intermediateToken = NoToken
    THEN Fail(w, Err("InvalidAddress", "Intermediate token not set"), <<>>, Obs0)
    ELSE IF amount = 0
    THEN Fail(w, Err("InvalidAmount", "Amount must be greater than 0"), <<>>, Obs0)
    ELSE IF ExceedsMaximum(w, amount)
    THEN Fail(w, Err("InvalidAmount", "Amount exceeds maximum"), <<>>, Obs0)
    ELSE IF TooSoon(w, blk)
    THEN Fail(w, Err("Error", "Too soon"), <<>>, Obs0)
    ELSE Bind(_checkPriceDeviation([w EXCEPT !.lastExecutionTime = blk], asset),
              LAMBDA dev :
        IF ~dev.ok THEN Fail(dev.w, dev.err, <<>>, Obs0)
        ELSE Bind(_calculateEstimatedProfit(dev.w, asset, amount), LAMBDA est :
            IF ~est.ok THEN Fail(dev.w, est.err, <<>>, Obs0)
            ELSE flashLoanSimple(_setupFlashLoan(dev.w, asset, amount), kind,
                                 "arb", "arb", asset, amount, sf1, sf2, <<>>, Obs0)))

\* FlashLoanArbitrage.getTradeStatistics
getTradeStatistics(w) ==
    LET totalTrades == w.successfulTrades + w.failedTrades
    IN  [ totalProfit |-> w.totalProfitGenerated,
          avgGasUsed |-> IF totalTrades > 0 THEN w.totalGasUsed \div totalTrades
                         ELSE 0,
          successRate |-> IF totalTrades > 0
                          THEN (w.successfulTrades * MAX_BPS) \div totalTrades
                          ELSE 0,
          totalTrades |-> totalTrades ]

\* Variant: a failed call keeps the writes made before the failure.
Commit_keepWrites(w, r) == r.w

\* A transaction commits the writes of a successful top-level call and none
\* of a reverted one.
Commit(w, r) == IF r.ok THEN r.w ELSE w

\* --------------------------------------- scripts/weth-dai-arbitrage.js
\* JavaScript numeric values carry their type: arithmetic that mixes a Number
\* with a BigInt throws a TypeError.
Num(v) == [t |-> "number", v |-> v]

Big(v) == [t |-> "bigint", v |-> v]

JsMul(a, b) ==
    IF a.t = b.t THEN [ok |-> TRUE, val |-> [t |-> a.t, v |-> a.v * b.v]]
    ELSE [ok |-> FALSE, val |-> Num(0)]

JsAdd(a, b) ==
    IF a.t = b.t THEN [ok |-> TRUE, val |-> [t |-> a.t, v |-> a.v + b.v]]
    ELSE [ok |-> FALSE, val |-> Num(0)]

RISK_MANAGEMENT ==
    [ maxPositionSize |-> [n \in PairNames \cup {"default"} |->
                              IF n \in {"WETH/DAI", "WETH/USDC"} THEN 50 ELSE 20],
      minLiquidity    |-> [n \in PairNames \cup {"default"} |->
                              IF n \in {"WETH/DAI", "WETH/USDC"}
                              THEN 1000000 ELSE 500000],
      minProfit       |-> 10,
      minROI          |-> 15,
      maxROI          |-> 500,
      emergencyStop   |-> [maxLoss |-> 100, maxGasSpent |-> 1,
                           cooldownPeriod |-> 300] ]

\* Gas estimates per pair, BigInt literals in the script; in units of 10^4 gas.
estimatedGasUsed(name) ==
    IF name \in {"WETH/DAI", "WETH/USDC"} THEN Big(18)
    ELSE IF name \in {"USDC/USDT", "DAI/USDC", "DAI/USDT"} THEN Big(19)
    ELSE IF name = "WBTC/WETH" THEN Big(20)
    ELSE Big(25)

\* The module-level state of the script when it is loaded.
BotLoaded ==
    [ emergencyStopActive |-> FALSE, totalLoss |-> 0, totalGasUsed |-> 0,
      executionStats |->
          [ totalTrades |-> 0, successfulTrades |-> 0, failedTrades |-> 0,
            totalProfit |-> 0, totalGasSpent |-> 0, lastTradeTime |-> 0,
            recentErrors |-> <<>> ] ]

\* updateExecutionStats(trade) at time t.  threw tells whether a TypeError
\* left the function; the writes made before it stay.
updateExecutionStats(stats, trade, t) ==
    LET counted == [stats EXCEPT !.totalTrades = @ + 1]
    IN  IF trade.success
        THEN LET gas == JsAdd(Num(stats.totalGasSpent), trade.gasSpent)
                 won == [counted EXCEPT !.successfulTrades = @ + 1,
                                        !.totalProfit = @ + trade.profit]
             IN  IF ~gas.ok THEN [threw |-> TRUE, stats |-> won]
                 ELSE [threw |-> FALSE,
                       stats |-> [won EXCEPT !.totalGasSpent = gas.val.v,
                                             !.lastTradeTime = t]]
        ELSE LET pushed == Append(stats.recentErrors,
                                  [time |-> t, error |-> "undefined",
                                   pair |-> trade.pair])
                 kept   == IF Len(pushed) > 10 THEN Tail(pushed) ELSE pushed
             IN  [threw |-> FALSE,
                  stats |-> [counted EXCEPT !.failedTrades = @ + 1,
                                            !.recentErrors = kept,
                                            !.lastTradeTime = t]]

\* checkEmergencyStop(): stop tells what it returned.
checkEmergencyStop(b) ==
    IF b.emergencyStopActive THEN [stop |-> TRUE, bot |-> b]
    ELSE IF b.totalLoss > RISK_MANAGEMENT.emergencyStop.maxLoss
            \/ b.totalGasUsed > RISK_MANAGEMENT.emergencyStop.maxGasSpent
    THEN [stop |-> TRUE, bot |-> [b EXCEPT !.emergencyStopActive = TRUE]]
    ELSE [stop |-> FALSE, bot |-> b]

\* What one executeArbitrage call did: whether the risk gate admitted the
\* trade (and why not), whether the bundle was simulated and submitted, what
\* the call returned and whether its catch block ran.
Exec(b, admitted, reason, simulated, submitted, returned, caught) ==
    [ bot |-> b, admitted |-> admitted, reason |-> reason,
      simulated |-> simulated, submitted |-> submitted,
      returned |-> returned, caught |-> caught ]

\* Variant: the counters are brought back to zero on a failed bundle.
FailureAccounting_reset(b, trade) ==
    [threw |-> FALSE, bot |-> [b EXCEPT !.totalLoss = -1, !.totalGasUsed = -1]]

\* totalLoss += trade.gasSpent * 2200; totalGasUsed += Number(formatEther(
\* trade.gasSpent)), for a trade that was not included.  The product is
\* evaluated before anything is assigned.
FailureAccounting(b, trade) ==
    LET usd == JsMul(trade.gasSpent, Num(2200))
    IN  IF ~usd.ok THEN [threw |-> TRUE, bot |-> b]
        ELSE [threw |-> FALSE,
              bot |-> [b EXCEPT !.totalLoss = @ + usd.val.v,
                                !.totalGasUsed = @ + trade.gasSpent.v]]

\* The part of executeArbitrage that follows the bundle's submission.
SettleBundle(b, pair, opportunity, env, t) ==
    LET gasSpent == JsMul(opportunity.gasPrice, estimatedGasUsed(pair))
        trade == [success |-> env.bundleInclusion = 0,
                  profit |-> opportunity.profit,
                  gasSpent |-> gasSpent.val, pair |-> pair]
    IN  IF ~gasSpent.ok
        THEN Exec(b, TRUE, "", TRUE, TRUE, "false", TRUE)
        ELSE Bind(updateExecutionStats(b.executionStats, trade, t), LAMBDA u :
             Bind([b EXCEPT !.executionStats = u.stats], LAMBDA b1 :
                IF u.threw THEN Exec(b1, TRUE, "", TRUE, TRUE, "false", TRUE)
                ELSE IF trade.success
                THEN Exec(b1, TRUE, "", TRUE, TRUE, "true", FALSE)
                ELSE Bind(FailureAccounting(b1, trade), LAMBDA f :
                    IF f.threw THEN Exec(f.bot, TRUE, "", TRUE, TRUE, "false", TRUE)
                    ELSE Exec(f.bot, TRUE, "", TRUE, TRUE, "false", FALSE))))

\* Variant: a trade turned away at the risk gate is booked as a failed trade.
executeArbitrage_countRejections(b, pair, opportunity, env, t) ==
    Bind(checkEmergencyStop(b), LAMBDA e :
        IF e.stop \/ opportunity.optimalSize > RISK_MANAGEMENT.maxPositionSize[pair]
           \/ opportunity.liquidityUSD < RISK_MANAGEMENT.minLiquidity[pair]
        THEN Exec([e.bot EXCEPT !.executionStats.totalTrades = @ + 1,
                                !.executionStats.failedTrades = @ + 1],
                  FALSE, "rejected", FALSE, FALSE, "undefined", FALSE)
        ELSE IF env.prepare = "throws"
        THEN Exec(e.bot, TRUE, "", FALSE, FALSE, "false", TRUE)
        ELSE IF env.firstRevert
        THEN Exec(e.bot, TRUE, "", TRUE, FALSE, "undefined", FALSE)
        ELSE IF env.send = "throws"
        THEN Exec(e.bot, TRUE, "", TRUE, FALSE, "false", TRUE)
        ELSE SettleBundle(e.bot, pair, opportunity, env, t))

\* executeArbitrage(pair, opportunity) at time t.  env holds what the outside
\* world answers: whether preparing the bundle throws, whether its simulation
\* reverts, whether sending it throws, and the inclusion code of the bundle.
executeArbitrage(b, pair, opportunity, env, t) ==
    Bind(checkEmergencyStop(b), LAMBDA e :
        IF e.stop
        THEN Exec(e.bot, FALSE, "Emergency stop active", FALSE, FALSE,
                  "undefined", FALSE)
        ELSE IF opportunity.optimalSize > RISK_MANAGEMENT.maxPositionSize[pair]
        THEN Exec(e.bot, FALSE, "exceeds max position size", FALSE, FALSE,
                  "undefined", FALSE)
        ELSE IF opportunity.liquidityUSD < RISK_MANAGEMENT.minLiquidity[pair]
        THEN Exec(e.bot, FALSE, "below minimum liquidity", FALSE, FALSE,
                  "undefined", FALSE)
        ELSE IF env.prepare = "throws"
        THEN Exec(e.bot, TRUE, "", FALSE, FALSE, "false", TRUE)
        ELSE IF env.firstRevert
        THEN Exec(e.bot, TRUE, "", TRUE, FALSE, "undefined", FALSE)
        ELSE IF env.send = "throws"
        THEN Exec(e.bot, TRUE, "", TRUE, FALSE, "false", TRUE)
        ELSE SettleBundle(e.bot, pair, opportunity, env, t))

\* --------------------------- scripts/weth-dai-arbitrage.js, detection
\* Fixed point of this section: prices and gas cost in whole USD, sizes in
\* hundredths of a token, profit in 1e-5 USD.
SizeUnit == 100
ProfitUnit == 100000

RECURSIVE SqrtSearch(_, _, _)
SqrtSearch(n, lo, hi) ==
    IF lo >= hi THEN lo
    ELSE LET mid == (lo + hi + 1) \div 2
         IN  IF mid * mid <= n THEN SqrtSearch(n, mid, hi)
             ELSE SqrtSearch(n, lo, mid - 1)

\* Math.sqrt, to the resolution of the fixed point.
Sqrt(n) == SqrtSearch(n, 0, 46340)

Min(a, b) == IF a <= b THEN a ELSE b

AbsVal(a) == IF a >= 0 THEN a ELSE -a

Max(a, b) == IF a >= b THEN a ELSE b

\* optimalSize * profitPerUnit * (1 - maxSlippage) - gasCostUSD
NetProfit(size, profitPerUnit, gasCostUSD) ==
    size * profitPerUnit * 997 - gasCostUSD * ProfitUnit

\* calculateProfit(uniPrice, sushiPrice, gasCostUSD, pair, uniReserve0,
\* sushiReserve0); minReserves stands for the smaller of the two formatted
\* reserves.  A zero profitPerUnit makes the square root Infinity, so that
\* the cap decides; a zero gas cost makes the size zero and roi NaN.
calculateProfit(uniPrice, sushiPrice, gasCostUSD, minReserves) ==
    LET higherPrice == Max(uniPrice, sushiPrice)
        lowerPrice == Min(uniPrice, sushiPrice)
        profitPerUnit == higherPrice - lowerPrice
        maxTradeSize == minReserves * 3
        optimalSize ==
            IF profitPerUnit = 0 THEN maxTradeSize
            ELSE Min(Sqrt((gasCostUSD * SizeUnit * SizeUnit * 1000)
                          \div (profitPerUnit * 997)),
                     maxTradeSize)
        profit == NetProfit(optimalSize, profitPerUnit, gasCostUSD)
    IN  [ null |-> ~(/\ profit > 5 * ProfitUnit
                     /\ gasCostUSD > 0
                     /\ profit * 10 > gasCostUSD * ProfitUnit
                     /\ profit < 10 * gasCostUSD * ProfitUnit),
          profit |-> profit,
          optimalSize |-> optimalSize,
          maxTradeSize |-> maxTradeSize,
          direction |-> IF uniPrice > sushiPrice THEN "Sushi->Uni"
                        ELSE "Uni->Sushi" ]

\* calculateProfit has not been applied on its own.
NoSizing ==
    [ made |-> FALSE, uniPrice |-> 0, sushiPrice |-> 0, gasCostUSD |-> 0,
      minReserves |-> 0, result |-> calculateProfit(0, 0, 0, 0) ]

\* MEV_PROTECTION.maxGasPrice, in gwei.
maxGasPrice == 150

\* One run of the 'block' listener of a pair: where it is suspended (pc), the
\* index i of the getFeeData retry loop while it is in that loop, and the fee
\* data while it holds them.
NewCycle == [pc |-> "getBlockNumber", i |-> 0, fee |-> 0]

\* What a finished checkArbitrageOpportunity call amounted to: result is
\* "opportunity" when logArbitrageOpportunity ran, "skip" when the function
\* returned without one, "error" when it caught an exception; logged tells
\* whether anything was written to the console about it.
Report(pair, result, reason, logged) ==
    [pair |-> pair, result |-> result, reason |-> reason, logged |-> logged]

NoReport == Report("", "none", "", FALSE)

\* The catch block of checkArbitrageOpportunity.
CycleCatch(pair, c, error) ==
    IF error \in {"rate limit", "network", "BAD_DATA", "missing revert data"}
    THEN [c |-> [NewCycle EXCEPT !.pc = "sleep2000"],
          report |-> Report(pair, "error", error, FALSE)]
    ELSE [c |-> [NewCycle EXCEPT !.pc = "sleep500"],
          report |-> Report(pair, "error", error, TRUE)]

\* A return statement of checkArbitrageOpportunity: the listener goes on to
\* its own sleep(500).
CycleReturn(pair, c, reason, logged) ==
    [c |-> [NewCycle EXCEPT !.pc = "sleep500"],
     report |-> Report(pair, "skip", reason, logged)]

\* gasLimit * gasPrice / BigInt(1e9), read as wei by formatEther, times 2200:
\* the gas cost in whole USD for a fee given in gwei.
CycleGasCostUSD(pair, fee) ==
    ((estimatedGasUsed(pair).v * fee * 2200) \div 10000000) \div 10000000

\* Math.abs(now - prev) / prev > 0.02; a zero prev makes the quotient
\* Infinity, or NaN when now is zero too.
ReserveChanged(current, prev) ==
    IF prev = 0 THEN current # 0
    ELSE AbsVal(current - prev) * 100 > 2 * prev

\* priceDiff > 0.1, priceDiff being the difference over the smaller price in
\* percent.
PriceDiffAboveFloor(uniPrice, sushiPrice) ==
    AbsVal(uniPrice - sushiPrice) * 1000 > Min(uniPrice, sushiPrice)

\* checkArbitrageOpportunity from the point where the four getReserves calls
\* have resolved to its end.  calculatePriceImpact adds a BigInt to a Number
\* and throws.
CycleDetect(pair, c, reading) ==
    LET uniReserve0 == reading.uni[1]
        uniReserve1 == reading.uni[2]
        sushiReserve0 == reading.sushi[1]
        sushiReserve1 == reading.sushi[2]
    IN  IF \/ ReserveChanged(uniReserve0, reading.uniPrev)
           \/ ReserveChanged(sushiReserve0, reading.sushiPrev)
        THEN CycleReturn(pair, c, "suspicious reserve changes", TRUE)
        ELSE IF uniReserve0 = 0 \/ uniReserve1 = 0
                \/ sushiReserve0 = 0 \/ sushiReserve1 = 0
        THEN CycleReturn(pair, c, "empty reserve", FALSE)
        ELSE LET uniPrice == (uniReserve1 * WAD) \div uniReserve0
                 sushiPrice == (sushiReserve1 * WAD) \div sushiReserve0
             IN  IF uniPrice = 0 \/ sushiPrice = 0
                 THEN CycleReturn(pair, c, "no price", FALSE)
                 ELSE IF ~PriceDiffAboveFloor(uniPrice, sushiPrice)
                 THEN CycleReturn(pair, c, "below the floor", FALSE)
                 ELSE Bind(calculateProfit(uniPrice \div WAD, sushiPrice \div WAD,
                                           CycleGasCostUSD(pair, c.fee),
                                           Min(uniReserve0, sushiReserve0)),
                           LAMBDA profitDetails :
                      IF ~profitDetails.null
                         /\ profitDetails.profit > 5 * ProfitUnit
                      THEN CycleCatch(pair, c, "Cannot mix BigInt and other types")
                      ELSE CycleReturn(pair, c, "no profit", FALSE))

\* checkArbitrageOpportunity resumed at the await it is suspended on; res is
\* what the awaited provider call came to: "ok", or the message of its error.
checkArbitrageOpportunity(pair, c, res, fee, reading) ==
    IF c.pc = "getBlockNumber"
    THEN IF res = "ok"
         THEN [c |-> [c EXCEPT !.pc = "getFeeData", !.i = 0], report |-> NoReport]
         ELSE CycleCatch(pair, c, res)
    ELSE IF c.pc = "getFeeData"
    THEN IF res = "ok"
         THEN IF fee > maxGasPrice
              THEN CycleReturn(pair, c, "gas price", FALSE)
              ELSE [c |-> [NewCycle EXCEPT !.pc = "getReserves", !.fee = fee],
                    report |-> NoReport]
         ELSE IF c.i = 2 THEN CycleCatch(pair, c, res)
         ELSE [c |-> [c EXCEPT !.pc = "sleep1000"], report |-> NoReport]
    ELSE IF c.pc = "sleep1000"
    THEN [c |-> [c EXCEPT !.pc = "getFeeData", !.i = @ + 1], report |-> NoReport]
    ELSE IF c.pc = "getReserves"
    THEN IF res = "ok" THEN CycleDetect(pair, c, reading)
         ELSE CycleCatch(pair, c, res)
    ELSE \* "sleep2000": the catch block returns
         [c |-> [c EXCEPT !.pc = "sleep500"], report |-> NoReport]

\* The pairs in the order main() sets them up.
TRADING_PAIRS == <<"WETH/DAI", "LINK/ETH">>

\* The process before main() is first called: provider is the module
\* variable (0: undefined; providers are numbered as they are created), runs
\* the main() calls made so far, pendingMain the setTimeout(main, 5000) timers
\* not yet fired, errorListeners the providers with an 'error' listener,
\* blockHandlers[pair] the providers the 'block' listeners of the pair are
\* registered on, one entry per listener, healthTimers the number of
\* setInterval(checkBotHealth) timers.
MainNotStarted ==
    [ provider |-> 0, runs |-> <<>>, pendingMain |-> 0, errorListeners |-> {},
      blockHandlers |-> [n \in PairNames |-> <<>>], healthTimers |-> 0 ]

\* main() up to 'await provider.ready': a new provider replaces the module
\* variable.
main(m) ==
    [m EXCEPT !.provider = Len(m.runs) + 1,
              !.runs = Append(@, [pc |-> "ready", pair |-> 1])]

\* 'await provider.ready' of run k settles: the 'error' listener is put on
\* the provider and the pairs are set up next, or the catch block schedules
\* main() again.
main_ready(m, k, ok) ==
    IF ok
    THEN [m EXCEPT !.errorListeners = @ \cup {m.provider},
                   !.runs[k].pc = "pairs"]
    ELSE [m EXCEPT !.pendingMain = @ + 1, !.runs[k].pc = "caught"]

\* 'await setupPairMonitoring(pair)' and the sleep after it, for the next pair
\* of run k: when both venues have the pair a 'block' listener is put on the
\* provider the module variable holds; after the last pair the health timer
\* is set.
main_setupPair(m, k, exists) ==
    LET i == m.runs[k].pair
        registered == IF exists
                      THEN [m EXCEPT !.blockHandlers[TRADING_PAIRS[i]] =
                                         Append(@, m.provider)]
                      ELSE m
    IN  IF i < Len(TRADING_PAIRS)
        THEN [registered EXCEPT !.runs[k].pair = i + 1]
        ELSE [registered EXCEPT !.runs[k].pc = "done", !.healthTimers = @ + 1]

\* The 'error' listener: setTimeout(main, 5000).
onProviderError(m) == [m EXCEPT !.pendingMain = @ + 1]

\* No 'block' listener is running.
HandlersIdle ==
    [cycles |-> [n \in PairNames |-> <<>>], last |-> NoReport,
     main |-> MainNotStarted]

\* ------------------------------------------------ arbitrage-bot/index.js
NoError == [name |-> "", restricted |-> FALSE]

\* The while (true) loop of main() before its first iteration: pc and venue
\* name the await the iteration is suspended on, binanceLiquidity is
\* binanceLiquidity.hasLiquidity, previous tells how the iteration before this
\* one ended and waited how long the loop waited between the two, delay is the
\* timer the loop is waiting on.
LoopNotStarted ==
    [ pc |-> "notStarted", venue |-> 1, iteration |-> 0, binanceLiquidity |-> FALSE,
      previous |-> "none", waited |-> 0, delay |-> 0, outcome |-> "none" ]

\* The next iteration starts: checkBalance on the first venue is called.
LoopIterate(l, previous, waited) ==
    [LoopNotStarted EXCEPT !.pc = "checkBalance", !.iteration = l.iteration + 1,
                           !.previous = previous, !.waited = waited]

\* logger.warn('Insufficient liquidity in order books'); continue;
OnInsufficientLiquidity(l) == LoopIterate(l, "continue", 0)

\* The await of the loop body settles: checkBalance, analyzeOrderBook and
\* fetchPrice return (ok) or throw after withBackoff gave up, and the body
\* runs on to its next await.
mainLoop(l, ok, hasLiquidity) ==
    IF ~ok
    THEN [l EXCEPT !.pc = "wait", !.delay = 5000, !.outcome = "error"]
    ELSE IF l.pc = "checkBalance"
    THEN IF l.venue = 1 THEN [l EXCEPT !.venue = 2]
         ELSE [l EXCEPT !.pc = "analyzeOrderBook", !.venue = 1]
    ELSE IF l.pc = "analyzeOrderBook"
    THEN IF l.venue = 1
         THEN [l EXCEPT !.venue = 2, !.binanceLiquidity = hasLiquidity]
         ELSE IF ~l.binanceLiquidity \/ ~hasLiquidity
         THEN OnInsufficientLiquidity(l)
         ELSE [l EXCEPT !.pc = "fetchPrice", !.venue = 1]
    ELSE IF l.venue = 1 THEN [l EXCEPT !.venue = 2]
         ELSE [l EXCEPT !.pc = "wait", !.delay = 3000, !.outcome = "pass"]

\* No withBackoff call has been made.
BackoffIdle ==
    [ pc |-> "idle", maxRetries |-> 0, stopOnLocationError |-> FALSE,
      retries |-> 0, calls |-> 0, failures |-> 0, delay |-> 0,
      error |-> NoError, thrown |-> NoError, loop |-> LoopNotStarted ]

\* withBackoff(fn, maxRetries, stopOnLocationError) entered: retries = 0 and
\* fn is about to be called.
BackoffEntered(maxRetries, stopOnLocationError) ==
    [BackoffIdle EXCEPT !.pc = "calling", !.maxRetries = maxRetries,
                        !.stopOnLocationError = stopOnLocationError]

\* error.name === 'RateLimitExceeded' && retries < maxRetries
ShouldRetry_inclusive(error, retries, maxRetries) ==
    error.name = "RateLimitExceeded" /\ retries <= maxRetries

ShouldRetry(error, retries, maxRetries) ==
    error.name = "RateLimitExceeded" /\ retries < maxRetries

\* The catch block of withBackoff.
withBackoff_catch(b, error) ==
    IF error.name = "ExchangeNotAvailable" /\ error.restricted
    THEN IF b.stopOnLocationError
         THEN [b EXCEPT !.pc = "exited", !.error = error]
         ELSE [b EXCEPT !.pc = "threw", !.error = error, !.thrown = error]
    ELSE IF ShouldRetry(error, b.retries, b.maxRetries)
    THEN [b EXCEPT !.pc = "waiting", !.error = error,
                   !.retries = @ + 1,
                   !.delay = Min(1000 * 2 ^ (b.retries + 1), 30000)]
    ELSE [b EXCEPT !.pc = "threw", !.error = error, !.thrown = error]

\* await fn() has settled: ok with a value, or with an error.
withBackoff(b, ok, error) ==
    IF ok THEN [b EXCEPT !.pc = "returned", !.calls = @ + 1]
    ELSE withBackoff_catch([b EXCEPT !.calls = @ + 1, !.failures = @ + 1], error)

\* ------------------------------------------- PriceMonitor (priceMonitor.js)
ExchangeNames == {Exchanges[k] : k \in 1..Len(Exchanges)}

NoEntry == [present |-> FALSE, bid |-> 0, ask |-> 0, timestamp |-> 0]

\* No findArbitrageOpportunities call stands for the prices held.
NoFind == [made |-> FALSE, minProfitPercent |-> 0, at |-> 0, opportunities |-> <<>>]

\* new PriceMonitor(exchanges, pairs), observing one pair: prices is the Map
\* (an absent key is NoEntry) and order the insertion order of its keys; next
\* is the exchange the loop of updatePrices fetches next; lastFind is the
\* latest return value of findArbitrageOpportunities, kept while the prices
\* it was computed from stand.
PriceMonitorNew ==
    [ prices |-> [e \in ExchangeNames |-> NoEntry], order |-> <<>>,
      next |-> 1, lastFind |-> NoFind,
      running |-> FALSE,
      loop |-> [pc |-> "constructed", cycles |-> 0, fetched |-> 0, stoppedIn |-> 0] ]

\* Variant: the loop of start() does not look at the flag.
LoopContinues_always(m) == TRUE

\* while (this.running)
LoopContinues(m) == m.running

\* start() up to its first await: the flag is set and, the loop test passing,
\* the first updatePrices begins.
start(m) ==
    [m EXCEPT !.running = TRUE, !.next = 1,
              !.loop = [@ EXCEPT !.pc = "updatePrices", !.cycles = 1, !.fetched = 0]]

\* The timer of line 24 fires: the loop test runs, and either the next
\* updatePrices begins or start() returns and its promise resolves.
startResume(m) ==
    IF LoopContinues(m)
    THEN [m EXCEPT !.next = 1,
                   !.loop = [@ EXCEPT !.pc = "updatePrices", !.cycles = @ + 1,
                                      !.fetched = 0]]
    ELSE [m EXCEPT !.loop.pc = "resolved"]

\* stop(); loop.stoppedIn notes the cycle during which stop() was first called
\* while start() was running (0: not so far).
stop(m) ==
    [m EXCEPT !.running = FALSE,
              !.loop.stoppedIn =
                  IF m.loop.pc \in {"updatePrices", "sleep"} /\ @ = 0
                  THEN m.loop.cycles ELSE @]

\* One pass of the inner loop of updatePrices for exchange e: fetchTicker
\* resolves to a ticker and the entry is set, or it rejects and the catch
\* logs, leaving the entry as it was.
updatePrices(m, e, ok, ticker, t) ==
    IF ok
    THEN [m EXCEPT !.prices[e] = [present |-> TRUE, bid |-> ticker.bid,
                                  ask |-> ticker.ask, timestamp |-> t],
                   !.order = IF m.prices[e].present THEN @ ELSE Append(@, e)]
    ELSE m

\* ((sellExchange.bid - buyExchange.ask) / buyExchange.ask) * 100
\*     > minProfitPercent, for a threshold given in tenths of a percent.
ProfitAbove_orEqual(buy, sell, minProfitPercent) ==
    (sell.bid - buy.ask) * 1000 >= minProfitPercent * buy.ask

ProfitAbove(buy, sell, minProfitPercent) ==
    (sell.bid - buy.ask) * 1000 > minProfitPercent * buy.ask

\* The two nested loops of findArbitrageOpportunities from position (i, j)
\* on, over the entries in insertion order.
RECURSIVE FindFrom(_, _, _, _)
FindFrom(m, minProfitPercent, i, j) ==
    IF i > Len(m.order) THEN <<>>
    ELSE IF j > Len(m.order) THEN FindFrom(m, minProfitPercent, i + 1, i + 2)
    ELSE LET buyExchange == m.prices[m.order[i]]
             sellExchange == m.prices[m.order[j]]
             rest == FindFrom(m, minProfitPercent, i, j + 1)
         IN  IF ProfitAbove(buyExchange, sellExchange, minProfitPercent)
             THEN <<[buyExchange |-> m.order[i], sellExchange |-> m.order[j],
                     buyPrice |-> buyExchange.ask,
                     sellPrice |-> sellExchange.bid]>> \o rest
             ELSE rest

findArbitrageOpportunities(m, minProfitPercent) ==
    FindFrom(m, minProfitPercent, 1, 2)

\* ------------------------------------------------- scripts/arbitrage.js
\* BigInt division truncates toward zero.
BigIntDiv(a, b) == IF a >= 0 THEN a \div b ELSE -((-a) \div b)

NoOpportunity ==
    [profitable |-> FALSE, inputToken |-> NoToken, amount |-> 0,
     expectedProfit |-> 0, checks |-> {}]

\* checkArbitrageOpportunity(flashLoanArbitrage, token0, token1, router,
\* amount) of arbitrage.js; a failing venue call is caught and yields
\* { profitable: false }.  checks names the tests the opportunity went through.
arbitrage_checkArbitrageOpportunity(w, token0, token1, amountIn) ==
    Bind(getAmountsOut(w, amountIn, token0, token1), LAMBDA amountsOut0to1 :
        IF ~amountsOut0to1.ok THEN NoOpportunity
        ELSE Bind(getAmountsOut(w, amountsOut0to1.val, token1, token0),
                  LAMBDA amountsOut1to0 :
            LET profit == amountsOut1to0.val - amountIn
                profitPercentage == BigIntDiv(profit * 10000, amountIn)
            IN  IF ~amountsOut1to0.ok THEN NoOpportunity
                ELSE IF profitPercentage >= w.minProfitBps
                THEN [profitable |-> TRUE, inputToken |-> token0,
                      amount |-> amountIn, expectedProfit |-> profit,
                      checks |-> {"profit"}]
                ELSE NoOpportunity))

\* executeArbitrage(flashLoanArbitrage, opportunity) of arbitrage.js up to the
\* point where the transaction is sent: submit tells whether it is sent.
arbitrage_executeArbitrage(w, opportunity, ethEnough) ==
    IF balanceOf(w, opportunity.inputToken, "pool") < opportunity.amount
    THEN [submit |-> FALSE, checks |-> opportunity.checks \cup {"poolBalance"}]
    ELSE IF ~ethEnough
    THEN [submit |-> FALSE,
          checks |-> opportunity.checks \cup {"poolBalance", "gasFunds"}]
    ELSE [submit |-> TRUE,
          checks |-> opportunity.checks \cup {"poolBalance", "gasFunds"}]

\* ---------------------------------------------------------------- actions
\* lastCall records the most recent transaction: what was called, how it
\* ended, the revert data the caller saw, the steps reached and the values
\* observed.  lastAttempt[asset] is the block of the most recent call that
\* borrowed from the lender, whether it then completed or aborted.
Call(op, sender, asset, amount, outcome, err, tr, obs) ==
    [ op |-> op, sender |-> sender, asset |-> asset, amount |-> amount,
      outcome |-> outcome, cause |-> CauseSig(err), causeMsg |-> CauseMsg(err),
      err |-> err, tr |-> tr, obs |-> obs ]

\* No settlement was attempted in the latest step.
NoCall == Call("none", "", NoToken, 0, "none", NoErr, <<>>, Obs0)

Install(w) ==
    /\ bal' = w.bal
    /\ allowance' = w.allowance
    /\ intermediateToken' = w.intermediateToken
    /\ maxPriceDeviation' = w.maxPriceDeviation
    /\ maxSlippage' = w.maxSlippage
    /\ minProfitBps' = w.minProfitBps
    /\ maxFlashLoanAmount' = w.maxFlashLoanAmount
    /\ lastExecutionTime' = w.lastExecutionTime
    /\ totalProfitGenerated' = w.totalProfitGenerated
    /\ totalGasUsed' = w.totalGasUsed
    /\ successfulTrades' = w.successfulTrades
    /\ failedTrades' = w.failedTrades
    /\ lastKnownPrice' = w.lastKnownPrice
    /\ paused' = w.paused

\* No function has been applied on its own.
NoCalc == [fn |-> "none", args |-> <<>>, val |-> 0, flag |-> FALSE]

\* No executeArbitrage call has been made.
NoExec ==
    [ pair |-> "", admitted |-> FALSE, reason |-> "", simulated |-> FALSE,
      submitted |-> FALSE, included |-> FALSE, returned |-> "none",
      caught |-> FALSE ]

\* What the executeArbitrage calls made so far amount to: their number, the
\* run of admitted attempts on each pair that failed one after the other with
\* the time of the last of them, and the gas cost in USD of the bundles that
\* were submitted and not included.
NoAudit ==
    [ calls |-> 0,
      consecutiveFailures |-> [n \in PairNames |-> 0],
      lastFailureTime |-> [n \in PairNames |-> 0],
      lossDue |-> 0 ]

\* monitorArbitrageOpportunities of arbitrage.js before its first pass: the
\* position in the two nested loops, the opportunity in hand, the latest
\* transaction it sent, and the number of its transactions that are sent and
\* not yet mined.
MonitorIdle ==
    [ pc |-> "check", pair |-> 1, amount |-> 1, opportunity |-> NoOpportunity,
      sent |-> 0, lastSent |-> [asset |-> NoToken, amount |-> 0, checks |-> {}],
      inFlight |-> 0 ]

\* The state of everything outside the chain while only the chain is observed.
OffchainIdle ==
    /\ calc = NoCalc
    /\ bot = BotLoaded
    /\ lastExec = NoExec
    /\ audit = NoAudit
    /\ now = 0
    /\ monitor = MonitorIdle
    /\ handlers = HandlersIdle
    /\ backoff = BackoffIdle
    /\ pm = PriceMonitorNew
    /\ sizing = NoSizing

Init ==
    /\ blockNumber = DeployBlock
    /\ routerKind \in RouterKinds
    /\ rates = [p \in Tokens \X Tokens |-> 0]
    /\ bal = [t \in Tokens |-> [h \in Holders |->
                 IF h = "router" \/ (h = "pool" /\ t \in Assets)
                 THEN InitialBalance ELSE 0]]
    /\ \E provisioned \in BOOLEAN :
          allowance = [t \in Tokens |-> [p \in Holders \X Holders |->
                          IF p = <<"arb", "router">> /\ provisioned
                          THEN UINT_MAX ELSE 0]]
    /\ poolApprovals = [t \in Tokens |-> FALSE]
    /\ intermediateToken = NoToken
    /\ maxPriceDeviation = DefaultMaxPriceDeviation
    /\ maxSlippage = DefaultMaxSlippage
    /\ minProfitBps = DeployMinProfitBps
    /\ maxFlashLoanAmount = DeployMaxFlashLoanAmount
    /\ lastExecutionTime = 0
    /\ totalProfitGenerated = 0
    /\ totalGasUsed = 0
    /\ successfulTrades = 0
    /\ failedTrades = 0
    /\ lastKnownPrice = [t \in Tokens |-> 0]
    /\ paused = FALSE
    /\ lastAttempt = [t \in Tokens |-> 0]
    /\ lastCall = NoCall
    /\ OffchainIdle

MineBlock ==
    /\ blockNumber < MaxBlock
    /\ blockNumber' = blockNumber + 1
    /\ lastCall' = NoCall
    /\ UNCHANGED <<routerKind, rates, ledgerVars, poolApprovals, contractVars,
                   lastAttempt>>
    /\ UNCHANGED offchainVars

\* MockUniswapV2Router02.setPrice
setPrice(pair, rate) ==
    /\ rates' = [rates EXCEPT ![pair] = rate]
    /\ lastCall' = NoCall
    /\ UNCHANGED <<blockNumber, routerKind, ledgerVars, poolApprovals,
                   contractVars, lastAttempt>>
    /\ UNCHANGED offchainVars

\* MockAavePool.setApproval(token, arb, approved)
setApproval(token, approved) ==
    /\ poolApprovals' = [poolApprovals EXCEPT ![token] = approved]
    /\ allowance' = [allowance EXCEPT ![token][<<"pool", "arb">>] =
                        IF approved THEN UINT_MAX ELSE 0]
    /\ lastCall' = NoCall
    /\ UNCHANGED <<blockNumber, routerKind, rates, bal, contractVars, lastAttempt>>
    /\ UNCHANGED offchainVars

onlyOwner(sender) == sender = "owner"

\* The setters revert (and write nothing) for a caller other than the owner and
\* for an out-of-range value.
setIntermediateToken(sender, token) ==
    /\ intermediateToken' =
          IF onlyOwner(sender) /\ token # NoToken THEN token ELSE intermediateToken
    /\ lastCall' = NoCall
    /\ UNCHANGED <<blockNumber, routerKind, rates, ledgerVars, poolApprovals,
                   maxPriceDeviation, maxSlippage, minProfitBps,
                   maxFlashLoanAmount, lastExecutionTime, totalProfitGenerated,
                   totalGasUsed, successfulTrades, failedTrades, lastKnownPrice,
                   paused, lastAttempt>>
    /\ UNCHANGED offchainVars

setMinProfitBps(sender, newBps) ==
    /\ minProfitBps' =
          IF onlyOwner(sender) /\ ~(newBps = 0 \/ newBps >= MAX_BPS)
          THEN newBps ELSE minProfitBps
    /\ lastCall' = NoCall
    /\ UNCHANGED <<blockNumber, routerKind, rates, ledgerVars, poolApprovals,
                   intermediateToken, maxPriceDeviation, maxSlippage,
                   maxFlashLoanAmount, lastExecutionTime, totalProfitGenerated,
                   totalGasUsed, successfulTrades, failedTrades, lastKnownPrice,
                   paused, lastAttempt>>
    /\ UNCHANGED offchainVars

setMaxSlippage(sender, newSlippage) ==
    /\ maxSlippage' =
          IF onlyOwner(sender) /\ ~(newSlippage = 0 \/ newSlippage >= MAX_BPS)
          THEN newSlippage ELSE maxSlippage
    /\ lastCall' = NoCall
    /\ UNCHANGED <<blockNumber, routerKind, rates, ledgerVars, poolApprovals,
                   intermediateToken, maxPriceDeviation, minProfitBps,
                   maxFlashLoanAmount, lastExecutionTime, totalProfitGenerated,
                   totalGasUsed, successfulTrades, failedTrades, lastKnownPrice,
                   paused, lastAttempt>>
    /\ UNCHANGED offchainVars

\* A transaction that names a function FlashLoanArbitrage does not define:
\* the contract has a receive() for plain transfers but no fallback, so the
\* call reverts and nothing is written.  pause() and unpause() are such
\* functions: the contract inherits Pausable, whose _pause and _unpause are
\* internal, and exposes neither.
CallUndefinedFunction(sender, fn) ==
    /\ lastCall' = Call(fn, sender, NoToken, 0, "Aborted",
                        Err("UndefinedFunction", fn), <<>>, Obs0)
    /\ UNCHANGED <<blockNumber, routerKind, rates, ledgerVars, poolApprovals,
                   contractVars, lastAttempt>>
    /\ UNCHANGED offchainVars

\* Whether a call gets past the modifiers, the input validation and the
\* spacing check (lines 210-217).
PassesSpacing(w, amount, blk) ==
    /\ ~w.paused
    /\ w.intermediateToken # NoToken
    /\ amount # 0
    /\ amount <= w.maxFlashLoanAmount
    /\ blk - w.lastExecutionTime >= MIN_EXECUTION_DELAY

InitiateFlashLoan(sender, asset, amount, sf1, sf2) ==
    /\ successfulTrades < MaxTrades
    /\ routerKind = "mock" => (sf1 = 0 /\ sf2 = 0)
    /\ \E w0 \in {World} :
       \E r \in {initiateFlashLoan(w0, routerKind, sender, asset, amount,
                                    blockNumber, sf1, sf2)} :
        /\ Install(Commit(w0, r))
        /\ lastAttempt' = IF r.tr # <<>>
                          THEN [lastAttempt EXCEPT ![asset] = blockNumber]
                          ELSE lastAttempt
        /\ lastCall' = Call("initiateFlashLoan", sender, asset, amount,
                            IF r.ok THEN "Repaid" ELSE "Aborted",
                            r.err, r.tr, r.obs)
        /\ UNCHANGED <<blockNumber, routerKind, rates, poolApprovals>>
        /\ UNCHANGED offchainVars

Next ==
    \/ MineBlock
    \/ \E p \in PriceInputs : setPrice(p[1], p[2])
    \/ \E token \in Assets, approved \in BOOLEAN : setApproval(token, approved)
    \/ \E sender \in Accounts, token \in {NoToken, WETH} :
          setIntermediateToken(sender, token)
    \/ \E sender \in Accounts, v \in ProfitBpsValues : setMinProfitBps(sender, v)
    \/ \E sender \in Accounts, v \in SlippageValues : setMaxSlippage(sender, v)
    \/ \E sender \in Accounts, asset \in Assets, amount \in Amounts,
          sf1 \in Shortfalls, sf2 \in Shortfalls :
          InitiateFlashLoan(sender, asset, amount, sf1, sf2)
    \/ \E fn \in UndefinedFunctions : CallUndefinedFunction("owner", fn)

Spec == Init /\ [][Next]_vars

\* ------------------------------------------- the tolerance checks on their own
\* _calculateMinAmountOut applied to a quoted amount under a configured
\* maxSlippage.
Apply_calculateMinAmountOut(q, slippage) ==
    /\ calc' = [fn |-> "_calculateMinAmountOut", args |-> <<q, slippage>>,
                val |-> _calculateMinAmountOut(
                            [World EXCEPT !.maxSlippage = slippage], q),
                flag |-> FALSE]
    /\ UNCHANGED <<onchainVars, feedVars, bot, lastExec, audit, now, monitor>>

\* The profit gate applied to a profit and an amount owed under a configured
\* minProfitBps; flag is TRUE when the gate rejects.
ApplyProfitTooLow(profit, amountOwed, bps) ==
    /\ calc' = [fn |-> "ProfitTooLow", args |-> <<profit, amountOwed, bps>>,
                val |-> 0,
                flag |-> ProfitTooLow([World EXCEPT !.minProfitBps = bps],
                                      profit, amountOwed)]
    /\ UNCHANGED <<onchainVars, feedVars, bot, lastExec, audit, now, monitor>>

NextRounding ==
    \/ \E q \in 0..MaxQuote, slippage \in RoundingSlippages :
          Apply_calculateMinAmountOut(q, slippage)
    \/ \E profit \in 0..MaxGateProfit, amountOwed \in GateOwed, bps \in GateBps :
          ApplyProfitTooLow(profit, amountOwed, bps)

SpecRounding == Init /\ [][NextRounding]_vars

\* ----------------------------------- scripts/weth-dai-arbitrage.js, running
\* Date.now() advances.
Tick ==
    /\ now + TickSeconds <= MaxTime
    /\ now' = now + TickSeconds
    /\ UNCHANGED <<onchainVars, feedVars, calc, bot, lastExec, audit, monitor>>

\* One call of executeArbitrage(pair, opportunity), from entry to return.
ExecuteArbitrage(pair, opportunity, env) ==
    /\ audit.calls < MaxExecutions
    /\ \E r \in {executeArbitrage(bot, pair, opportunity, env, now)} :
        LET included == r.submitted /\ env.bundleInclusion = 0
            failed   == r.admitted /\ ~included
        IN  /\ bot' = r.bot
            /\ lastExec' = [ pair |-> pair, admitted |-> r.admitted,
                             reason |-> r.reason, simulated |-> r.simulated,
                             submitted |-> r.submitted, included |-> included,
                             returned |-> r.returned, caught |-> r.caught ]
            /\ audit' =
                  [ calls |-> audit.calls + 1,
                    consecutiveFailures |->
                        [audit.consecutiveFailures EXCEPT ![pair] =
                            IF failed THEN @ + 1
                            ELSE IF included THEN 0 ELSE @],
                    lastFailureTime |->
                        [audit.lastFailureTime EXCEPT ![pair] =
                            IF failed THEN now ELSE @],
                    lossDue |->
                        IF r.submitted /\ ~included
                        THEN audit.lossDue
                             + opportunity.gasPrice.v * estimatedGasUsed(pair).v * 2200
                        ELSE audit.lossDue ]
    /\ UNCHANGED <<onchainVars, feedVars, calc, now, monitor>>

NextBot ==
    \/ Tick
    \/ \E pair \in PairNames, opportunity \in Opportunities, env \in Environments :
          ExecuteArbitrage(pair, opportunity, env)

InitBot ==
    /\ Init
    /\ routerKind = "mock"
    /\ allowance["TKA"][<<"arb", "router">>] = 0

SpecBot == InitBot /\ [][NextBot]_vars

\* ------------------------------------------- scripts/arbitrage.js, running
\* The next position of the two nested loops (pairs, then test amounts); the
\* pass ends with the 2000 ms sleep.
Advance(m) ==
    IF m.amount < Len(testAmounts)
    THEN [m EXCEPT !.pc = "check", !.amount = @ + 1, !.opportunity = NoOpportunity]
    ELSE IF m.pair < Len(MonitorPairs)
    THEN [m EXCEPT !.pc = "check", !.pair = @ + 1, !.amount = 1,
                   !.opportunity = NoOpportunity]
    ELSE [m EXCEPT !.pc = "sleep", !.opportunity = NoOpportunity]

\* await checkArbitrageOpportunity(...) in the loop body.
MonitorCheck ==
    /\ monitor.pc = "check"
    /\ \E opp \in {arbitrage_checkArbitrageOpportunity(World,
                       MonitorPairs[monitor.pair].token0,
                       MonitorPairs[monitor.pair].token1,
                       testAmounts[monitor.amount])} :
          monitor' = IF opp.profitable
                     THEN [monitor EXCEPT !.pc = "execute", !.opportunity = opp]
                     ELSE Advance(monitor)
    /\ UNCHANGED <<onchainVars, feedVars, calc, bot, lastExec, audit, now>>

\* const tx = await flashLoanArbitrage.initiateFlashLoan(...) has resolved:
\* the transaction is sent and the function goes on to await tx.wait().
Submitted_noWait(m, checks) ==
    [Advance(m) EXCEPT !.sent = @ + 1, !.inFlight = @ + 1,
                       !.lastSent = [asset |-> m.opportunity.inputToken,
                                     amount |-> m.opportunity.amount,
                                     checks |-> checks]]

Submitted(m, checks) ==
    [m EXCEPT !.pc = "wait", !.sent = @ + 1, !.inFlight = @ + 1,
              !.lastSent = [asset |-> m.opportunity.inputToken,
                            amount |-> m.opportunity.amount,
                            checks |-> checks]]

\* tx.wait() has settled, with a receipt or with an error: the error is
\* caught inside executeArbitrage, which returns to the loop either way.
Settled(m) ==
    IF m.pc = "wait"
    THEN [Advance(m) EXCEPT !.inFlight = @ - 1]
    ELSE [m EXCEPT !.inFlight = @ - 1]

\* await executeArbitrage(flashLoanArbitrage, opportunity), up to the point
\* where the transaction, when one is sent, is on its way.
MonitorExecute(ethEnough) ==
    /\ monitor.pc = "execute"
    /\ monitor.sent < MaxSent
    /\ \E e \in {arbitrage_executeArbitrage(World, monitor.opportunity, ethEnough)} :
          monitor' = IF e.submit THEN Submitted(monitor, e.checks)
                     ELSE Advance(monitor)
    /\ UNCHANGED <<onchainVars, feedVars, calc, bot, lastExec, audit, now>>

\* The transaction, signed by the deployer, is mined and tx.wait() settles.
MonitorConfirm ==
    /\ monitor.inFlight > 0
    /\ \E w0 \in {World} :
       \E r \in {initiateFlashLoan(w0, routerKind, "owner",
                                   monitor.lastSent.asset,
                                   monitor.lastSent.amount,
                                   blockNumber, 0, 0)} :
          /\ Install(Commit(w0, r))
          /\ lastAttempt' =
                IF r.tr # <<>>
                THEN [lastAttempt EXCEPT ![monitor.lastSent.asset] = blockNumber]
                ELSE lastAttempt
          /\ lastCall' = Call("initiateFlashLoan", "owner",
                              monitor.lastSent.asset, monitor.lastSent.amount,
                              IF r.ok THEN "Repaid" ELSE "Aborted",
                              r.err, r.tr, r.obs)
          /\ monitor' = Settled(monitor)
    /\ UNCHANGED <<blockNumber, routerKind, rates, poolApprovals>>
    /\ UNCHANGED <<feedVars, calc, bot, lastExec, audit, now>>

\* The sleep at the end of a pass is over.
MonitorSleep ==
    /\ monitor.pc = "sleep"
    /\ monitor' = [monitor EXCEPT !.pc = "check", !.pair = 1, !.amount = 1]
    /\ UNCHANGED <<onchainVars, feedVars, calc, bot, lastExec, audit, now>>

NextMonitor ==
    \/ MineBlock
    \/ \E p \in MonitorPrices : setPrice(p[1], p[2])
    \/ MonitorCheck
    \/ \E ethEnough \in BOOLEAN : MonitorExecute(ethEnough)
    \/ MonitorConfirm
    \/ MonitorSleep

\* The deployed system the script attaches to (deployment-addresses.json):
\* intermediate token set, the pool approval given, the venue allowed to pull
\* from the contract, no rate set yet.
InitMonitor ==
    /\ blockNumber = DeployBlock
    /\ routerKind = "mock"
    /\ rates = [p \in Tokens \X Tokens |-> 0]
    /\ bal = [t \in Tokens |-> [h \in Holders |->
                 IF h = "router" \/ (h = "pool" /\ t \in Assets)
                 THEN InitialBalance ELSE 0]]
    /\ allowance = [t \in Tokens |-> [p \in Holders \X Holders |->
                       IF p = <<"arb", "router">> \/ (p = <<"pool", "arb">> /\ t \in Assets)
                       THEN UINT_MAX ELSE 0]]
    /\ poolApprovals = [t \in Tokens |-> t \in Assets]
    /\ intermediateToken = WETH
    /\ maxPriceDeviation = DefaultMaxPriceDeviation
    /\ maxSlippage = DefaultMaxSlippage
    /\ minProfitBps = DeployMinProfitBps
    /\ maxFlashLoanAmount = DeployMaxFlashLoanAmount
    /\ lastExecutionTime = 0
    /\ totalProfitGenerated = 0
    /\ totalGasUsed = 0
    /\ successfulTrades = 0
    /\ failedTrades = 0
    /\ lastKnownPrice = [t \in Tokens |-> 0]
    /\ paused = FALSE
    /\ lastAttempt = [t \in Tokens |-> 0]
    /\ lastCall = NoCall
    /\ OffchainIdle

SpecMonitor == InitMonitor /\ [][NextMonitor]_vars

\* ------------------- scripts/weth-dai-arbitrage.js, the 'block' listeners
\* provider emits 'block': the listener registered for each pair is called
\* and runs up to its first await.
OnBlock ==
    /\ \A n \in PairNames : Len(handlers.cycles[n]) < MaxCycles
    /\ handlers' = [handlers EXCEPT
                       !.cycles = [n \in PairNames |-> Append(@[n], NewCycle)]]
    /\ UNCHANGED <<onchainVars, calc, bot, lastExec, audit, now, monitor,
                   backoff, pm, sizing>>

\* The await a listener run is suspended on settles and the run goes on to
\* its next await.  A timer settles with "ok"; fee and reading are what
\* getFeeData and getReserves resolve to, and are absent otherwise.
CycleResume(pair, k, res, fee, reading) ==
    /\ k \in 1..Len(handlers.cycles[pair])
    /\ handlers.cycles[pair][k].pc # "sleep500"
    /\ handlers.cycles[pair][k].pc \in {"sleep1000", "sleep2000"} => res = "ok"
    /\ (fee # 0) = (handlers.cycles[pair][k].pc = "getFeeData" /\ res = "ok")
    /\ (reading # NoReading)
          = (handlers.cycles[pair][k].pc = "getReserves" /\ res = "ok")
    /\ \E r \in {checkArbitrageOpportunity(pair, handlers.cycles[pair][k],
                                           res, fee, reading)} :
          handlers' = [handlers EXCEPT
                          !.cycles[pair][k] = r.c,
                          !.last = IF r.report = NoReport THEN @ ELSE r.report]
    /\ UNCHANGED <<onchainVars, calc, bot, lastExec, audit, now, monitor,
                   backoff, pm, sizing>>

\* sleep(500) is over and the listener run ends.
CycleEnd(pair, k) ==
    /\ k \in 1..Len(handlers.cycles[pair])
    /\ handlers.cycles[pair][k].pc = "sleep500"
    /\ handlers' = [handlers EXCEPT !.cycles[pair] =
                       SubSeq(@, 1, k - 1) \o SubSeq(@, k + 1, Len(@))]
    /\ UNCHANGED <<onchainVars, calc, bot, lastExec, audit, now, monitor,
                   backoff, pm, sizing>>

NextListener ==
    \/ OnBlock
    \/ \E pair \in PairNames, k \in 1..MaxCycles :
       \E res \in {"ok"} \cup ProviderErrors, fee \in FeeData \cup {0},
          reading \in ReserveReadings \cup {NoReading} :
          CycleResume(pair, k, res, fee, reading)
    \/ \E pair \in PairNames, k \in 1..MaxCycles : CycleEnd(pair, k)

SpecListener == InitBot /\ [][NextListener]_vars

\* ---------------------- scripts/weth-dai-arbitrage.js, main() and restarts
\* main() is called when the script is loaded.
MainCalled ==
    /\ handlers.main.runs = <<>>
    /\ handlers' = [handlers EXCEPT !.main = main(@)]
    /\ UNCHANGED <<onchainVars, calc, bot, lastExec, audit, now, monitor,
                   backoff, pm, sizing>>

\* A setTimeout(main, 5000) timer fires.
MainTimer ==
    /\ handlers.main.pendingMain > 0
    /\ handlers' = [handlers EXCEPT !.main = main([@ EXCEPT !.pendingMain = @ - 1])]
    /\ UNCHANGED <<onchainVars, calc, bot, lastExec, audit, now, monitor,
                   backoff, pm, sizing>>

\* provider.ready of a run settles.
MainReady(k, ok) ==
    /\ k \in 1..Len(handlers.main.runs)
    /\ handlers.main.runs[k].pc = "ready"
    /\ ok \/ Len(handlers.main.runs) + handlers.main.pendingMain < MaxMainRuns
    /\ handlers' = [handlers EXCEPT !.main = main_ready(@, k, ok)]
    /\ UNCHANGED <<onchainVars, calc, bot, lastExec, audit, now, monitor,
                   backoff, pm, sizing>>

\* setupPairMonitoring of a run returns and the sleep after it is over.
MainSetupPair(k, exists) ==
    /\ k \in 1..Len(handlers.main.runs)
    /\ handlers.main.runs[k].pc = "pairs"
    /\ handlers' = [handlers EXCEPT !.main = main_setupPair(@, k, exists)]
    /\ UNCHANGED <<onchainVars, calc, bot, lastExec, audit, now, monitor,
                   backoff, pm, sizing>>

\* A provider with an 'error' listener emits 'error'.
ProviderError(p) ==
    /\ p \in handlers.main.errorListeners
    /\ Len(handlers.main.runs) + handlers.main.pendingMain < MaxMainRuns
    /\ handlers' = [handlers EXCEPT !.main = onProviderError(@)]
    /\ UNCHANGED <<onchainVars, calc, bot, lastExec, audit, now, monitor,
                   backoff, pm, sizing>>

NextMain ==
    \/ MainCalled
    \/ MainTimer
    \/ \E k \in 1..MaxMainRuns, ok \in BOOLEAN : MainReady(k, ok)
    \/ \E k \in 1..MaxMainRuns, exists \in BOOLEAN : MainSetupPair(k, exists)
    \/ \E p \in 1..MaxMainRuns : ProviderError(p)

SpecMain == InitBot /\ [][NextMain]_vars


\* ------------------------------------- arbitrage-bot/index.js, withBackoff
\* A caller enters withBackoff.
BackoffEnter(maxRetries, stopOnLocationError) ==
    /\ backoff.pc \in {"idle", "returned", "threw"}
    /\ backoff' = BackoffEntered(maxRetries, stopOnLocationError)
    /\ UNCHANGED <<onchainVars, calc, bot, lastExec, audit, now, monitor,
                   handlers, pm, sizing>>

\* await fn() settles.
BackoffCall(ok, error) ==
    /\ backoff.pc = "calling"
    /\ backoff' = withBackoff(backoff, ok, error)
    /\ UNCHANGED <<onchainVars, calc, bot, lastExec, audit, now, monitor,
                   handlers, pm, sizing>>

\* The backoff timer fires and the loop calls fn again.
BackoffWake ==
    /\ backoff.pc = "waiting"
    /\ backoff' = [backoff EXCEPT !.pc = "calling"]
    /\ UNCHANGED <<onchainVars, calc, bot, lastExec, audit, now, monitor,
                   handlers, pm, sizing>>

NextBackoff ==
    \/ \E maxRetries \in 0..MaxRetries, stopOnLocationError \in BOOLEAN :
          BackoffEnter(maxRetries, stopOnLocationError)
    \/ \E error \in VenueErrors : BackoffCall(FALSE, error)
    \/ BackoffCall(TRUE, NoError)
    \/ BackoffWake

\* Every fn call settles and every timer fires.
SpecBackoff ==
    /\ InitBot
    /\ [][NextBackoff]_vars
    /\ WF_vars(\E error \in VenueErrors \cup {NoError}, ok \in BOOLEAN :
                  BackoffCall(ok, error))
    /\ WF_vars(BackoffWake)

\* ------------------------------- arbitrage-bot/index.js, the main loop
\* main() reaches while (true).
LoopStart ==
    /\ backoff.loop.pc = "notStarted"
    /\ backoff' = [backoff EXCEPT !.loop = LoopIterate(@, "none", 0)]
    /\ UNCHANGED <<onchainVars, calc, bot, lastExec, audit, now, monitor,
                   handlers, pm, sizing>>

\* The venue call the body waits for settles.
LoopAwait(ok, hasLiquidity) ==
    /\ backoff.loop.pc \in {"checkBalance", "analyzeOrderBook", "fetchPrice"}
    /\ backoff.loop.iteration <= MaxIterations
    /\ hasLiquidity \/ (ok /\ backoff.loop.pc = "analyzeOrderBook")
    /\ backoff' = [backoff EXCEPT !.loop = mainLoop(@, ok, hasLiquidity)]
    /\ UNCHANGED <<onchainVars, calc, bot, lastExec, audit, now, monitor,
                   handlers, pm, sizing>>

\* The timer at the end of the body fires.
LoopWake ==
    /\ backoff.loop.pc = "wait"
    /\ backoff.loop.iteration < MaxIterations
    /\ backoff' = [backoff EXCEPT
                      !.loop = LoopIterate(@, @.outcome, @.delay)]
    /\ UNCHANGED <<onchainVars, calc, bot, lastExec, audit, now, monitor,
                   handlers, pm, sizing>>

NextLoop ==
    \/ LoopStart
    \/ \E ok \in BOOLEAN, hasLiquidity \in BOOLEAN : LoopAwait(ok, hasLiquidity)
    \/ LoopWake

SpecLoop == InitBot /\ [][NextLoop]_vars

\* --------------------------------------------------- PriceMonitor, running
\* updatePrices reaches the next exchange and its fetchTicker settles.
FetchTicker(ok, ticker) ==
    /\ pm' = [updatePrices(pm, Exchanges[pm.next], ok, ticker, now) EXCEPT
                 !.next = (pm.next % Len(Exchanges)) + 1,
                 !.lastFind = NoFind]
    /\ UNCHANGED <<onchainVars, calc, bot, lastExec, audit, now, monitor,
                   handlers, backoff, sizing>>

\* A caller asks for the opportunities.
FindArbitrageOpportunities(minProfitPercent) ==
    /\ pm' = [pm EXCEPT !.lastFind =
                 [made |-> TRUE, minProfitPercent |-> minProfitPercent,
                  at |-> now,
                  opportunities |-> findArbitrageOpportunities(pm, minProfitPercent)]]
    /\ UNCHANGED <<onchainVars, calc, bot, lastExec, audit, now, monitor,
                   handlers, backoff, sizing>>

NextPriceMonitor ==
    \/ Tick
    \/ \E ticker \in Tickers : FetchTicker(TRUE, ticker)
    \/ FetchTicker(FALSE, CHOOSE ticker \in Tickers : TRUE)
    \/ \E minProfitPercent \in MinProfitPercents :
          FindArbitrageOpportunities(minProfitPercent)

SpecPriceMonitor == InitBot /\ [][NextPriceMonitor]_vars

\* ------------------------------------- PriceMonitor, started and stopped
\* monitor.start()
Start ==
    /\ pm.loop.pc = "constructed"
    /\ pm' = start(pm)
    /\ UNCHANGED <<onchainVars, calc, bot, lastExec, audit, now, monitor,
                   handlers, backoff, sizing>>

\* The fetchTicker the running updatePrices waits for settles; after the last
\* exchange updatePrices returns and start() sets its timer.
CycleFetch(ok, ticker) ==
    /\ pm.loop.pc = "updatePrices"
    /\ pm' = [updatePrices(pm, Exchanges[pm.next], ok, ticker, now) EXCEPT
                 !.next = (pm.next % Len(Exchanges)) + 1,
                 !.lastFind = NoFind,
                 !.loop = [@ EXCEPT !.fetched = @ + 1,
                                    !.pc = IF pm.next = Len(Exchanges)
                                           THEN "sleep" ELSE @]]
    /\ UNCHANGED <<onchainVars, calc, bot, lastExec, audit, now, monitor,
                   handlers, backoff, sizing>>

\* The timer fires.
CycleWake ==
    /\ pm.loop.pc = "sleep"
    /\ LoopContinues(pm) => pm.loop.cycles < MaxUpdates
    /\ pm' = startResume(pm)
    /\ UNCHANGED <<onchainVars, calc, bot, lastExec, audit, now, monitor,
                   handlers, backoff, sizing>>

\* monitor.stop(), at any time after construction.
Stop ==
    /\ pm' = stop(pm)
    /\ UNCHANGED <<onchainVars, calc, bot, lastExec, audit, now, monitor,
                   handlers, backoff, sizing>>

NextPriceMonitorLoop ==
    \/ Start
    \/ \E ticker \in Tickers : CycleFetch(TRUE, ticker)
    \/ CycleFetch(FALSE, CHOOSE ticker \in Tickers : TRUE)
    \/ CycleWake
    \/ Stop

\* Every fetchTicker settles and every timer fires.
SpecPriceMonitorLoop ==
    /\ InitBot
    /\ [][NextPriceMonitorLoop]_vars
    /\ WF_vars(\E ticker \in Tickers, ok \in BOOLEAN : CycleFetch(ok, ticker))
    /\ WF_vars(CycleWake)

\* ------------------------------------------------ the sizer on its own
\* calculateProfit applied to two prices, a gas cost and the smaller reserve.
ApplyCalculateProfit(uniPrice, sushiPrice, gasCostUSD, minReserves) ==
    /\ sizing' = [ made |-> TRUE, uniPrice |-> uniPrice,
                   sushiPrice |-> sushiPrice, gasCostUSD |-> gasCostUSD,
                   minReserves |-> minReserves,
                   result |-> calculateProfit(uniPrice, sushiPrice,
                                              gasCostUSD, minReserves) ]
    /\ UNCHANGED <<onchainVars, calc, bot, lastExec, audit, now, monitor,
                   handlers, backoff, pm>>

NextSizer ==
    \E uniPrice \in SizerPrices, sushiPrice \in SizerPrices,
       gasCostUSD \in GasCosts, minReserves \in SizerReserves :
        ApplyCalculateProfit(uniPrice, sushiPrice, gasCostUSD, minReserves)

SpecSizer == InitBot /\ [][NextSizer]_vars

\* ------------------------------------- configuration, withdrawal, callers
\* What the deployer passes for _maxFlashLoanAmount and _minProfitBps, what
\* the setters are called with, and who may receive a withdrawal.
DeployArgs == {0, 200} \X {0, 100, 10000}
SetterInputs == {0, 250, 10000}
Setters == {"setMaxFlashLoanAmount", "setMinProfitBps", "setMaxPriceDeviation",
            "setMaxSlippage"}
Recipients == {NoToken, "owner", "arb"}

\* The constructor: the deployment reverts for a zero maximum and for a
\* minimum profit outside 1..MAX_BPS-1 (the address arguments are the
\* deployed mocks, never zero).
constructor(_maxFlashLoanAmount, _minProfitBps) ==
    IF _maxFlashLoanAmount = 0
    THEN [ok |-> FALSE, maxFlashLoanAmount |-> 0, minProfitBps |-> 0,
          maxPriceDeviation |-> 0, maxSlippage |-> 0]
    ELSE IF _minProfitBps = 0 \/ _minProfitBps >= MAX_BPS
    THEN [ok |-> FALSE, maxFlashLoanAmount |-> 0, minProfitBps |-> 0,
          maxPriceDeviation |-> 0, maxSlippage |-> 0]
    ELSE [ok |-> TRUE, maxFlashLoanAmount |-> _maxFlashLoanAmount,
          minProfitBps |-> _minProfitBps,
          maxPriceDeviation |-> DefaultMaxPriceDeviation,
          maxSlippage |-> DefaultMaxSlippage]

\* Variant: MAX_BPS itself is accepted.
InvalidBps_inclusive(v) == v = 0 \/ v > MAX_BPS

\* The range test of the three basis-point setters: TRUE when the value is
\* rejected.
InvalidBps(v) == v = 0 \/ v >= MAX_BPS

\* The four configuration setters as call frames, msg.sender = sender.
Configure(w, fn, sender, v) ==
    IF ~onlyOwner(sender)
    THEN Fail(w, Err("Error", "Ownable: caller is not the owner"), <<>>, Obs0)
    ELSE IF fn = "setMaxFlashLoanAmount"
    THEN IF v = 0
         THEN Fail(w, Err("InvalidAmount", "Amount cannot be 0"), <<>>, Obs0)
         ELSE Ok([w EXCEPT !.maxFlashLoanAmount = v], TRUE,
                 <<"MaxFlashLoanAmountUpdated">>, Obs0)
    ELSE IF fn = "setMinProfitBps"
    THEN IF InvalidBps(v)
         THEN Fail(w, Err("InvalidAmount", "Invalid bps"), <<>>, Obs0)
         ELSE Ok([w EXCEPT !.minProfitBps = v], TRUE, <<"MinProfitBpsUpdated">>, Obs0)
    ELSE IF fn = "setMaxPriceDeviation"
    THEN IF InvalidBps(v)
         THEN Fail(w, Err("InvalidAmount", "Invalid deviation"), <<>>, Obs0)
         ELSE Ok([w EXCEPT !.maxPriceDeviation = v], TRUE, <<>>, Obs0)
    ELSE IF InvalidBps(v)
         THEN Fail(w, Err("InvalidAmount", "Invalid slippage"), <<>>, Obs0)
         ELSE Ok([w EXCEPT !.maxSlippage = v], TRUE, <<>>, Obs0)

\* Variant: the withdrawal leaves one unit behind.
WithdrawAmount_keepOne(balance) == balance - 1

\* The amount emergencyWithdraw sends: the whole balance.
WithdrawAmount(balance) == balance

\* FlashLoanArbitrage.emergencyWithdraw, msg.sender = sender.
emergencyWithdraw(w, sender, token, to) ==
    IF ~onlyOwner(sender)
    THEN Fail(w, Err("Error", "Ownable: caller is not the owner"), <<>>, Obs0)
    ELSE IF token = NoToken
    THEN Fail(w, Err("InvalidAddress", "Invalid token"), <<>>, Obs0)
    ELSE IF to = NoToken
    THEN Fail(w, Err("InvalidAddress", "Invalid recipient"), <<>>, Obs0)
    ELSE LET balance == balanceOf(w, token, "arb")
         IN  IF balance = 0
             THEN Fail(w, Err("InvalidAmount", "No tokens to withdraw"), <<>>, Obs0)
             ELSE Ok(TokenTransfer(w, token, "arb", to, WithdrawAmount(balance)).w,
                     balance, <<"EmergencyWithdraw">>, Obs0)

\* A transaction that calls one of the setters.
SetParameter(fn, sender, v) ==
    /\ \E w0 \in {World} :
       \E r \in {Configure(w0, fn, sender, v)} :
        /\ Install(Commit(w0, r))
        /\ lastCall' = Call(fn, sender, NoToken, v,
                            IF r.ok THEN "Done" ELSE "Aborted", r.err, r.tr, r.obs)
    /\ UNCHANGED <<blockNumber, routerKind, rates, poolApprovals, lastAttempt>>
    /\ UNCHANGED offchainVars

\* A transaction that calls emergencyWithdraw(token, to, reason); the amount
\* recorded is the contract's balance of the token before the call.
EmergencyWithdraw(sender, token, to) ==
    /\ \E w0 \in {World} :
       \E r \in {emergencyWithdraw(w0, sender, token, to)} :
        /\ Install(Commit(w0, r))
        /\ lastCall' = Call("emergencyWithdraw", sender, token,
                            IF token = NoToken THEN 0 ELSE balanceOf(w0, token, "arb"),
                            IF r.ok THEN to ELSE "Aborted", r.err, r.tr, r.obs)
    /\ UNCHANGED <<blockNumber, routerKind, rates, poolApprovals, lastAttempt>>
    /\ UNCHANGED offchainVars

\* A transaction in which an account calls executeOperation on the contract
\* itself, naming an initiator of its choice.
CallExecuteOperation(sender, asset, amount, initiator) ==
    /\ \E w0 \in {World} :
       \E r \in {executeOperation(w0, routerKind, sender, "pool", asset, amount,
                                  FlashLoanPremium, initiator, 0, 0, <<>>, Obs0)} :
        /\ Install(Commit(w0, r))
        /\ lastCall' = Call("executeOperation", sender, asset, amount,
                            IF r.ok THEN "Done" ELSE "Aborted", r.err, r.tr, r.obs)
    /\ UNCHANGED <<blockNumber, routerKind, rates, poolApprovals, lastAttempt>>
    /\ UNCHANGED offchainVars

\* A transaction in which an account calls _executeArbitrage on the contract.
Call_executeArbitrage(sender, asset, amount) ==
    /\ \E w0 \in {World} :
       \E r \in {_executeArbitrage(w0, routerKind, sender, asset, amount, amount,
                                   0, 0, <<>>, Obs0)} :
        /\ Install(Commit(w0, r))
        /\ lastCall' = Call("_executeArbitrage", sender, asset, amount,
                            IF r.ok THEN "Done" ELSE "Aborted", r.err, r.tr, r.obs)
    /\ UNCHANGED <<blockNumber, routerKind, rates, poolApprovals, lastAttempt>>
    /\ UNCHANGED offchainVars

\* A transaction in which an account asks the pool for a flash loan and names
\* the contract as the receiver.
CallFlashLoanSimple(sender, asset, amount) ==
    /\ \E w0 \in {World} :
       \E r \in {flashLoanSimple(w0, routerKind, sender, "arb", asset, amount,
                                 0, 0, <<>>, Obs0)} :
        /\ Install(Commit(w0, r))
        /\ lastCall' = Call("flashLoanSimple", sender, asset, amount,
                            IF r.ok THEN "Done" ELSE "Aborted", r.err, r.tr, r.obs)
    /\ UNCHANGED <<blockNumber, routerKind, rates, poolApprovals, lastAttempt>>
    /\ UNCHANGED offchainVars

\* The contract as deployed by the test fixture with the pool approval and
\* the router allowance in place and a profitable pair of rates.
InitAdmin ==
    /\ blockNumber = DeployBlock
    /\ routerKind = "mock"
    /\ rates = [p \in Tokens \X Tokens |->
                  IF p = <<"TKA", "WETH">> THEN 102
                  ELSE IF p = <<"WETH", "TKA">> THEN 100 ELSE 0]
    /\ bal = [t \in Tokens |-> [h \in Holders \cup Accounts |->
                 IF h = "router" \/ (h = "pool" /\ t \in Assets)
                 THEN InitialBalance ELSE 0]]
    /\ allowance = [t \in Tokens |-> [p \in Holders \X Holders |->
                       IF p = <<"arb", "router">> \/ (p = <<"pool", "arb">> /\ t \in Assets)
                       THEN UINT_MAX ELSE 0]]
    /\ poolApprovals = [t \in Tokens |-> t \in Assets]
    /\ intermediateToken = NoToken
    /\ \E args \in DeployArgs :
       \E c \in {constructor(args[1], args[2])} :
          /\ c.ok
          /\ maxPriceDeviation = c.maxPriceDeviation
          /\ maxSlippage = c.maxSlippage
          /\ minProfitBps = c.minProfitBps
          /\ maxFlashLoanAmount = c.maxFlashLoanAmount
    /\ lastExecutionTime = 0
    /\ totalProfitGenerated = 0
    /\ totalGasUsed = 0
    /\ successfulTrades = 0
    /\ failedTrades = 0
    /\ lastKnownPrice = [t \in Tokens |-> 0]
    /\ paused = FALSE
    /\ lastAttempt = [t \in Tokens |-> 0]
    /\ lastCall = NoCall
    /\ OffchainIdle

NextAdmin ==
    \/ MineBlock
    \/ \E sender \in Accounts, token \in {NoToken, WETH} :
          setIntermediateToken(sender, token)
    \/ \E fn \in Setters, sender \in Accounts, v \in SetterInputs :
          SetParameter(fn, sender, v)
    \/ \E sender \in Accounts, asset \in Tokens, amount \in Amounts :
          InitiateFlashLoan(sender, asset, amount, 0, 0)
    \/ \E sender \in Accounts, token \in {NoToken} \cup Assets, to \in Recipients :
          EmergencyWithdraw(sender, token, to)
    \/ \E sender \in Accounts, asset \in Assets, initiator \in {"arb", "user1"} :
          CallExecuteOperation(sender, asset, 100, initiator)
    \/ \E asset \in Assets : Call_executeArbitrage("user1", asset, 100)
    \/ \E asset \in Assets : CallFlashLoanSimple("user1", asset, 100)

SpecAdmin == InitAdmin /\ [][NextAdmin]_vars

\* ------------------------ the off-chain test against the contract's gates
\* Round trips quoted by the venue (TKA -> WETH -> TKA), loan sizes and
\* configured tolerances.
GateRates == {100, 101, 102, 105, 110} \X {100, 101, 102}
GateAmounts == {100, 150, 200}
GateSlippages == {50, 100, 300}

\* checkArbitrageOpportunity of arbitrage.js and, at the same rates and once
\* the spacing has elapsed, initiateFlashLoan for the same asset and amount,
\* on the deployed system with maxSlippage as configured by the owner.
QuoteAndSettle(p1, p2, amountIn, slippage) ==
    /\ \E w0 \in {[World EXCEPT !.rates[<<"TKA", "WETH">>] = p1,
                                !.rates[<<"WETH", "TKA">>] = p2,
                                !.maxSlippage = slippage]} :
       \E opp \in {arbitrage_checkArbitrageOpportunity(w0, "TKA", "WETH", amountIn)} :
       \E r \in {initiateFlashLoan(w0, routerKind, "owner", "TKA", amountIn,
                                    blockNumber + MIN_EXECUTION_DELAY, 0, 0)} :
          calc' = [fn |-> "QuoteAndSettle",
                   args |-> <<p1, p2, amountIn, slippage>>,
                   val |-> [profitable |-> opp.profitable, settled |-> r.ok,
                            cause |-> CauseSig(r.err), obs |-> r.obs],
                   flag |-> opp.profitable]
    /\ UNCHANGED <<onchainVars, feedVars, bot, lastExec, audit, now, monitor>>

NextGates ==
    \E p \in GateRates, amountIn \in GateAmounts, slippage \in GateSlippages :
        QuoteAndSettle(p[1], p[2], amountIn, slippage)

SpecGates == InitMonitor /\ [][NextGates]_vars

TypeOK ==
    /\ blockNumber \in DeployBlock..MaxBlock
    /\ lastExecutionTime \in 0..MaxBlock
    /\ successfulTrades \in 0..MaxTrades
    /\ failedTrades \in Nat
    /\ lastCall.outcome \in {"none", "Repaid", "Aborted"}

\* ----------------------------------------------------------------- claims
IsSettlement(c) == c.op = "initiateFlashLoan"

FullTrace == <<"Borrowed", "Leg1Executed", "Leg2Executed", "ProfitVerified", "Repaid">>

IsPrefix(a, b) == Len(a) <= Len(b) /\ SubSeq(b, 1, Len(a)) = a

\* C1: every initiateFlashLoan that completes without reverting has
\* profit = finalAmount - (amount + premium) with
\* profit * 10000 >= (amount + premium) * minProfitBps, hence
\* profit >= minProfitBps * amount / 10000, and the contract's balance of the
\* asset grows by exactly that profit.
C1_ProfitFloor ==
    [][ (IsSettlement(lastCall') /\ lastCall'.outcome = "Repaid") =>
        LET c == lastCall'
            o == c.obs
        IN  /\ o.owed = c.amount + FlashLoanPremium
            /\ o.profit = o.received2 - o.owed
            /\ o.profit * MAX_BPS >= o.owed * minProfitBps
            /\ o.profit >= (minProfitBps * c.amount) \div MAX_BPS
            /\ bal'[c.asset]["arb"] = bal[c.asset]["arb"] + o.profit ]_vars

\* A settlement succeeded although the venue delivered less than it quoted in
\* leg 2.
C1_Witness ==
    /\ IsSettlement(lastCall)
    /\ lastCall.outcome = "Repaid"
    /\ lastCall.obs.received2 < lastCall.obs.quoted2
    /\ lastCall.obs.profit > 0

\* C2: an initiateFlashLoan that aborts, at whatever step, leaves every
\* contract variable and every token balance and allowance as before the call.
C2_Atomicity ==
    [][ (IsSettlement(lastCall') /\ lastCall'.outcome = "Aborted") =>
        UNCHANGED <<contractVars, ledgerVars, poolApprovals, rates>> ]_vars

\* An abort after both legs were executed (at the profit gate).
C2_Witness ==
    /\ IsSettlement(lastCall)
    /\ lastCall.outcome = "Aborted"
    /\ lastCall.tr = <<"Borrowed", "Leg1Executed", "Leg2Executed">>
    /\ lastCall.cause = "InsufficientProfit"

\* C3: a successful settlement went through borrow, leg 1, leg 2, profit
\* check, repayment in this order, each once; an aborted one stopped on the
\* way and never reached the repayment; Repaid and Aborted are the only
\* outcomes.
C3_StepOrder ==
    IsSettlement(lastCall) =>
        /\ lastCall.outcome \in {"Repaid", "Aborted"}
        /\ lastCall.outcome = "Repaid" => lastCall.tr = FullTrace
        /\ lastCall.outcome = "Aborted" =>
              /\ IsPrefix(lastCall.tr, FullTrace)
              /\ Len(lastCall.tr) < Len(FullTrace)
        /\ \A i \in 1..Len(lastCall.tr) :
              lastCall.tr[i] = "Repaid" =>
                  i > 1 /\ lastCall.tr[i - 1] = "ProfitVerified"

\* The second of two successful settlements.
C3_Witness ==
    /\ IsSettlement(lastCall)
    /\ lastCall.outcome = "Repaid"
    /\ lastCall.tr = FullTrace
    /\ successfulTrades = 2

\* C4: after a successful initiateFlashLoan the pool holds at least what it
\* held before; amount + premium was taken by the pool through transferFrom
\* (the allowance of amount * 2 set by _setupFlashLoan is consumed by it).
C4_LenderRepaid ==
    [][ (IsSettlement(lastCall') /\ lastCall'.outcome = "Repaid") =>
        LET c == lastCall'
        IN  /\ bal'[c.asset]["pool"] >= bal[c.asset]["pool"]
            /\ c.obs.pulled = c.amount + FlashLoanPremium
            /\ allowance'[c.asset][<<"arb", "pool">>] =
                  c.amount * 2 - (c.amount + FlashLoanPremium) ]_vars

\* A successful settlement after which the pool holds its initial funds.
C4_Witness ==
    /\ IsSettlement(lastCall)
    /\ lastCall.outcome = "Repaid"
    /\ lastCall.obs.pulled = lastCall.amount
    /\ bal[lastCall.asset]["pool"] = InitialBalance

\* C5: initiateFlashLoan reverts for every caller other than the owner.
C5_OnlyOwner ==
    (IsSettlement(lastCall) /\ lastCall.sender # "owner") =>
        lastCall.outcome = "Aborted"

\* The price deviation of C6, in basis points of the recorded price.
AbsDiff(a, b) == IF a >= b THEN a - b ELSE b - a

\* C6: with lastKnownPrice[asset] set and the venue price off by more than
\* maxPriceDeviation basis points in either direction, a call that reaches the
\* price check reverts with PriceDeviation and lastKnownPrice is kept.
C6_PriceDeviation ==
    [][ ( /\ IsSettlement(lastCall')
          /\ PassesSpacing(World, lastCall'.amount, blockNumber)
          /\ lastKnownPrice[lastCall'.asset] # 0
          /\ rates[<<lastCall'.asset, WETH>>] # 0
          /\ AbsDiff(rates[<<lastCall'.asset, WETH>>],
                     lastKnownPrice[lastCall'.asset]) * MAX_BPS
                > maxPriceDeviation * lastKnownPrice[lastCall'.asset] ) =>
        /\ lastCall'.outcome = "Aborted"
        /\ lastCall'.cause = "PriceDeviation"
        /\ lastKnownPrice' = lastKnownPrice ]_vars

\* C7: when the venue returns in leg 1 fewer units than
\* minAmountOut = quoted - floor(quoted * maxSlippage / 10000), the settlement
\* aborts with ExcessiveSlippage and nothing changes.
C7_Leg1Slippage ==
    [][ (IsSettlement(lastCall') /\ lastCall'.obs.quoted1 >= 0) =>
        LET o == lastCall'.obs
        IN  /\ o.minOut1 = o.quoted1 - ((o.quoted1 * maxSlippage) \div MAX_BPS)
            /\ (o.received1 >= 0 /\ o.received1 < o.minOut1) =>
                  /\ lastCall'.outcome = "Aborted"
                  /\ lastCall'.cause = "ExcessiveSlippage"
                  /\ UNCHANGED <<contractVars, ledgerVars>> ]_vars

\* Quoted 110, returned 104, maxSlippage 500: aborted.
C7_Witness ==
    /\ IsSettlement(lastCall)
    /\ maxSlippage = 500
    /\ lastCall.obs.quoted1 = 110
    /\ lastCall.obs.minOut1 = 105
    /\ lastCall.obs.received1 = 104
    /\ lastCall.outcome = "Aborted"
    /\ lastCall.cause = "ExcessiveSlippage"

\* C8: when the venue returns in leg 2 fewer units than (1 - maxSlippage)
\* times the leg-2 quote, the settlement aborts.
C8_Leg2Slippage ==
    ( /\ IsSettlement(lastCall)
      /\ lastCall.obs.received2 >= 0
      /\ lastCall.obs.received2 * MAX_BPS
            < lastCall.obs.quoted2 * (MAX_BPS - maxSlippage) ) =>
        lastCall.outcome = "Aborted"

\* C9: a round trip whose profit is below the minProfitBps floor reverts, and
\* the revert seen by the caller is the custom error InsufficientProfit.
C9_InsufficientProfitError ==
    ( /\ IsSettlement(lastCall)
      /\ lastCall.obs.profit >= 0
      /\ lastCall.obs.profit * MAX_BPS < lastCall.obs.owed * minProfitBps ) =>
        /\ lastCall.outcome = "Aborted"
        /\ lastCall.err.sig = "InsufficientProfit"

\* C10: a call with valid inputs made fewer than MIN_EXECUTION_DELAY blocks
\* after the last settlement attempt on the asset, succeeded or aborted, is
\* rejected with "Too soon".
C10_TooSoon ==
    [][ ( /\ IsSettlement(lastCall')
          /\ ~paused
          /\ intermediateToken # NoToken
          /\ lastCall'.amount # 0
          /\ lastCall'.amount <= maxFlashLoanAmount
          /\ lastAttempt[lastCall'.asset] # 0
          /\ blockNumber - lastAttempt[lastCall'.asset] < MIN_EXECUTION_DELAY ) =>
        /\ lastCall'.outcome = "Aborted"
        /\ lastCall'.causeMsg = "Too soon" ]_vars

\* C11: the owner can pause and unpause: a call of pause() by the owner
\* leaves the contract paused, every initiateFlashLoan made while it is paused
\* reverts, and a call of unpause() by the owner leaves it not paused.
C11_PauseUnpause ==
    [][ /\ (lastCall'.op = "pause" /\ lastCall'.sender = "owner") =>
              (lastCall'.outcome # "Aborted" /\ paused')
        /\ (lastCall'.op = "unpause" /\ lastCall'.sender = "owner") =>
              (lastCall'.outcome # "Aborted" /\ ~paused')
        /\ (IsSettlement(lastCall') /\ paused) =>
              lastCall'.outcome = "Aborted" ]_vars

\* C12: lastKnownPrice[a] changes only in a step that is a completed
\* settlement of a, and right after a completed settlement of a it is the
\* price of a in WETH the venue quoted when the call started; aborted
\* attempts, settlements of another token and every other call keep it.
C12_LastKnownPrice ==
    [][ \A a \in Tokens :
        LET settled == /\ IsSettlement(lastCall')
                       /\ lastCall'.outcome = "Repaid"
                       /\ lastCall'.asset = a
        IN  /\ lastKnownPrice'[a] # lastKnownPrice[a] => settled
            /\ settled =>
                  lastKnownPrice'[a] = getAmountsOut(World, WAD, a, WETH).val ]_vars

\* The second completed settlement, made at a price other than the one the
\* first recorded; the entry of the other token is still unset.
C12_Witness ==
    /\ IsSettlement(lastCall)
    /\ lastCall.outcome = "Repaid"
    /\ successfulTrades = 2
    /\ lastKnownPrice[lastCall.asset] = 110
    /\ rates[<<lastCall.asset, WETH>>] = 110
    /\ totalProfitGenerated = 12
    /\ lastKnownPrice[WETH] = 0

\* C13: rounding never loosens a tolerance check: the minimum output computed
\* for a quote q under maxSlippage s satisfies minOut * 10000 >= q * (10000 - s),
\* and the profit gate accepts exactly when
\* profit * 10000 >= amountOwed * minProfitBps.
C13_Rounding ==
    /\ calc.fn = "_calculateMinAmountOut" =>
          calc.val * MAX_BPS >= calc.args[1] * (MAX_BPS - calc.args[2])
    /\ calc.fn = "ProfitTooLow" =>
          (~calc.flag <=> calc.args[1] * MAX_BPS >= calc.args[2] * calc.args[3])

\* A quote for which the tolerance is not a whole number of units, so that
\* the computed minimum lies strictly above the exact bound.
C13_Witness ==
    /\ calc.fn = "_calculateMinAmountOut"
    /\ (calc.args[1] * calc.args[2]) % MAX_BPS # 0
    /\ calc.val * MAX_BPS > calc.args[1] * (MAX_BPS - calc.args[2])
    /\ calc.val < calc.args[1]

\* The contract as deployed, with nothing called on it but
\* setIntermediateToken, and nothing called on the lender.
FreshDeployment ==
    /\ intermediateToken # NoToken
    /\ maxPriceDeviation = DefaultMaxPriceDeviation
    /\ maxSlippage = DefaultMaxSlippage
    /\ minProfitBps = DeployMinProfitBps
    /\ maxFlashLoanAmount = DeployMaxFlashLoanAmount
    /\ lastExecutionTime = 0
    /\ successfulTrades = 0
    /\ failedTrades = 0
    /\ totalProfitGenerated = 0
    /\ \A t \in Tokens : lastKnownPrice[t] = 0 /\ ~poolApprovals[t]
    /\ blockNumber >= MIN_EXECUTION_DELAY

\* The round trip asset -> intermediateToken -> asset at the current rates
\* returns, after the slippage allowance, the amount owed and the
\* minProfitBps margin on top.
RoundTripCovers(asset, amount) ==
    LET q1 == getAmountsOut(World, amount, asset, intermediateToken)
        q2 == getAmountsOut(World, q1.val, intermediateToken, asset)
        owed == amount + FlashLoanPremium
    IN  /\ q1.ok /\ q2.ok
        /\ getAmountsOut(World, WAD, asset, WETH).ok
        /\ _calculateMinAmountOut(World, q2.val) >= owed
        /\ (q2.val - owed) * MAX_BPS >= owed * minProfitBps
        /\ bal[asset]["pool"] >= amount
        /\ bal[intermediateToken]["router"] >= q1.val
        /\ bal[asset]["router"] >= q2.val

\* C14: on a freshly deployed contract on which only setIntermediateToken was
\* called, with the lender and the venue funded and a round trip that covers
\* the amount owed and the margin, initiateFlashLoan(asset, amount) with
\* 0 < amount <= maxFlashLoanAmount completes, counts one successful trade
\* and adds the profit to totalProfitGenerated.
C14_FreshDeploymentSettles ==
    [][ ( /\ IsSettlement(lastCall')
          /\ FreshDeployment
          /\ routerKind = "mock"
          /\ lastCall'.amount > 0
          /\ lastCall'.amount <= maxFlashLoanAmount
          /\ RoundTripCovers(lastCall'.asset, lastCall'.amount) ) =>
        /\ lastCall'.outcome = "Repaid"
        /\ successfulTrades' = successfulTrades + 1
        /\ totalProfitGenerated' = totalProfitGenerated + lastCall'.obs.profit ]_vars

\* A step that is one executeArbitrage call.
IsExecution == audit'.calls = audit.calls + 1

\* C15: once the cumulative loss (the gas cost in USD of the bundles that
\* failed, or the script's own counters totalLoss and totalGasUsed) exceeds
\* its ceiling, or the stop is active, every executeArbitrage call returns
\* without simulating or submitting anything, and the stop never becomes
\* inactive again.
C15_EmergencyStopTrips ==
    [][ /\ bot.emergencyStopActive => bot'.emergencyStopActive
        /\ ( /\ IsExecution
             /\ \/ audit.lossDue > RISK_MANAGEMENT.emergencyStop.maxLoss
                \/ bot.totalLoss > RISK_MANAGEMENT.emergencyStop.maxLoss
                \/ bot.totalGasUsed > RISK_MANAGEMENT.emergencyStop.maxGasSpent
                \/ bot.emergencyStopActive ) =>
              /\ ~lastExec'.simulated
              /\ ~lastExec'.submitted ]_vars

C17_CoolingDown ==
    [][ \A p \in PairNames :
        ( /\ IsExecution
          /\ lastExec'.pair = p
          /\ audit.consecutiveFailures[p] >= 3
          /\ now - audit.lastFailureTime[p]
                < RISK_MANAGEMENT.emergencyStop.cooldownPeriod ) =>
            /\ ~lastExec'.admitted
            /\ lastExec'.reason = "Cooling-Down"
            /\ ~lastExec'.simulated ]_vars

\* C19: an executeArbitrage call that the risk gate turns away leaves
\* executionStats, totalLoss and totalGasUsed as they were, and simulates and
\* submits nothing.
C19_RejectionFrame ==
    [][ (IsExecution /\ ~lastExec'.admitted) =>
        /\ bot'.executionStats = bot.executionStats
        /\ bot'.totalLoss = bot.totalLoss
        /\ bot'.totalGasUsed = bot.totalGasUsed
        /\ ~lastExec'.simulated
        /\ ~lastExec'.submitted
        /\ lastExec'.returned = "undefined" ]_vars

\* A trade turned away for its liquidity after an earlier trade had failed.
C19_Witness ==
    /\ ~lastExec.admitted
    /\ lastExec.reason = "below minimum liquidity"
    /\ bot.executionStats.failedTrades = 1
    /\ bot.executionStats.totalTrades = 2

\* C20: every attempt that the risk gate admits and that then fails
\* (simulation reverts, bundle not included, exception while preparing or
\* submitting) adds one to the failure counter and adds its cost to the
\* cumulative loss and gas counters.
C20_FailuresCounted ==
    [][ (IsExecution /\ lastExec'.admitted /\ ~lastExec'.included) =>
        /\ bot'.executionStats.failedTrades = bot.executionStats.failedTrades + 1
        /\ bot'.totalLoss >= bot.totalLoss
        /\ bot'.totalGasUsed >= bot.totalGasUsed
        /\ lastExec'.submitted =>
              (bot'.totalLoss > bot.totalLoss /\ bot'.totalGasUsed > bot.totalGasUsed)
      ]_vars

\* C18: every transaction or bundle an orchestrator loop submits for
\* settlement went through a price-impact check of that same trade.
C18_PriceImpactChecked ==
    monitor.sent > 0 => "priceImpact" \in monitor.lastSent.checks

\* C21: in the block-driven monitor at most one detection cycle per pair is
\* in flight at any time, whatever the timing of the 'block' events.
C21_OneCyclePerPair ==
    \A n \in PairNames : Len(handlers.cycles[n]) <= 1

\* C22: the polling monitor has at most one initiateFlashLoan transaction in
\* flight; while one is in flight the loop is suspended on it and evaluates
\* nothing, and when the transaction settles, completed or aborted, the loop
\* goes on from the next position.
C22_OneTransactionInFlight ==
    /\ [](/\ monitor.inFlight <= 1
          /\ monitor.inFlight = 1 <=> monitor.pc = "wait")
    /\ [][ monitor.inFlight = 1 /\ monitor'.inFlight = 0 =>
              monitor' = [Advance(monitor) EXCEPT !.inFlight = 0] ]_vars

\* A settlement sent by the loop aborted, and the loop is evaluating again.
C22_Witness ==
    /\ monitor.sent > 0
    /\ monitor.inFlight = 0
    /\ lastCall.outcome = "Aborted"
    /\ monitor.pc = "execute"

\* C29: every error or failed outcome of the orchestrator is surfaced with
\* its reason: a detection cycle that ended in an exception wrote it to the
\* console.
C29_ErrorsSurfaced ==
    handlers.last.result = "error" => handlers.last.logged

\* C23: withBackoff calls fn at most maxRetries + 1 times, returns at the
\* first call that succeeds, never waits more than 30000 ms before a retry,
\* throws the last error once the budget is used up, and always comes to an
\* end when every fn call does.
C23_BackoffTerminates ==
    /\ [](/\ backoff.calls <= backoff.maxRetries + 1
          /\ backoff.delay <= 30000
          /\ backoff.pc = "returned" => backoff.failures = backoff.calls - 1
          /\ backoff.pc = "threw" => backoff.thrown = backoff.error
          /\ backoff.pc \in {"calling", "waiting"} =>
                backoff.calls <= backoff.maxRetries)
    /\ (backoff.pc = "calling" ~> backoff.pc \in {"returned", "threw", "exited"})

\* The whole budget was used, the last delay was the capped one, and the last
\* error was thrown.
C23_Witness ==
    /\ backoff.pc = "threw"
    /\ backoff.maxRetries = 5
    /\ backoff.calls = 6
    /\ backoff.delay = 30000
    /\ backoff.thrown.name = "RateLimitExceeded"

\* C24: a transient venue error (timeout, temporary unavailability, rate
\* limiting) thrown by the wrapped call is propagated only when the retry
\* budget is used up.
C24_TransientRetried ==
    backoff.pc = "threw"
    /\ backoff.thrown.name \in {"RateLimitExceeded", "RequestTimeout",
                                "ExchangeNotAvailable"}
    /\ ~backoff.thrown.restricted
    => backoff.retries = backoff.maxRetries

C26_DirectionFound ==
    pm.lastFind.made =>
        \A a, b \in ExchangeNames :
            /\ a # b
            /\ pm.prices[a].present
            /\ pm.prices[b].present
            /\ ProfitAbove(pm.prices[a], pm.prices[b], pm.lastFind.minProfitPercent)
            => \E k \in 1..Len(pm.lastFind.opportunities) :
                  /\ pm.lastFind.opportunities[k].buyExchange = a
                  /\ pm.lastFind.opportunities[k].sellExchange = b

\* The age beyond which a quote counts as stale, in the unit of now.
StalenessBound == 200

\* C27: no opportunity is emitted from a quote older than the staleness
\* bound.
C27_NoStaleQuote ==
    pm.lastFind.made =>
        \A k \in 1..Len(pm.lastFind.opportunities) :
            LET o == pm.lastFind.opportunities[k]
            IN  /\ pm.lastFind.at - pm.prices[o.buyExchange].timestamp
                      <= StalenessBound
                /\ pm.lastFind.at - pm.prices[o.sellExchange].timestamp
                      <= StalenessBound

\* The tolerance of the sizing bound: 1 USD.
SizingTolerance == ProfitUnit

\* C28: the size calculateProfit chooses for an opportunity yields a net
\* profit within the tolerance of the best net profit of any size in
\* (0, maxTradeSize].
C28_SizingOptimal ==
    sizing.made /\ ~sizing.result.null =>
        \A size \in 1..sizing.result.maxTradeSize :
            NetProfit(size, AbsVal(sizing.uniPrice - sizing.sushiPrice),
                      sizing.gasCostUSD)
                - sizing.result.profit <= SizingTolerance

\* C30: a settlement attempt that aborts inside executeOperation adds one to
\* failedTrades, a completed one adds one to successfulTrades, and
\* getTradeStatistics reports their sum as totalTrades and the share of the
\* completed ones as successRate.
C30_FailuresRecorded ==
    [][ lastCall' # lastCall /\ IsSettlement(lastCall') =>
          /\ (lastCall'.outcome = "Aborted" /\ lastCall'.err.innerSig # "") =>
                /\ failedTrades' = failedTrades + 1
                /\ successfulTrades' = successfulTrades
          /\ lastCall'.outcome = "Repaid" =>
                /\ successfulTrades' = successfulTrades + 1
                /\ failedTrades' = failedTrades
          /\ getTradeStatistics(World)'.totalTrades
                = successfulTrades' + failedTrades'
          /\ getTradeStatistics(World)'.successRate * getTradeStatistics(World)'.totalTrades
                <= successfulTrades' * MAX_BPS
      ]_vars

\* C31: a call of initiateFlashLoan with amount 0, with an amount above
\* maxFlashLoanAmount, or while no intermediate token is set reverts with
\* InvalidAmount or InvalidAddress before anything is borrowed and leaves the
\* contract and every balance and allowance as they were; an amount equal to
\* maxFlashLoanAmount is not rejected by the size check.
C31_InputValidation ==
    [][IsSettlement(lastCall') =>
        /\ (\/ lastCall'.amount = 0
            \/ lastCall'.amount > maxFlashLoanAmount
            \/ intermediateToken = NoToken)
           => /\ lastCall'.outcome = "Aborted"
              /\ lastCall'.cause \in {"InvalidAmount", "InvalidAddress"}
              /\ lastCall'.tr = <<>>
              /\ UNCHANGED <<contractVars, ledgerVars>>
        /\ (/\ lastCall'.amount = maxFlashLoanAmount
            /\ intermediateToken # NoToken)
           => lastCall'.cause \notin {"InvalidAmount", "InvalidAddress"}]_vars

C31_Witness ==
    /\ IsSettlement(lastCall)
    /\ lastCall.amount > maxFlashLoanAmount
    /\ lastCall.causeMsg = "Amount exceeds maximum"
    /\ successfulTrades > 0

\* C32: minProfitBps, maxSlippage and maxPriceDeviation are always strictly
\* between 0 and 10000 and maxFlashLoanAmount is always positive; a setter
\* called by the owner with a value in range stores exactly that value, and a
\* setter called with a value out of range or by anyone else reverts and
\* leaves every parameter as it was.
C32_ParametersInRange ==
    /\ [](/\ 0 < minProfitBps /\ minProfitBps < 10000
          /\ 0 < maxSlippage /\ maxSlippage < 10000
          /\ 0 < maxPriceDeviation /\ maxPriceDeviation < 10000
          /\ maxFlashLoanAmount > 0)
    /\ [][lastCall'.op \in Setters =>
            LET fn == lastCall'.op
                v == lastCall'.amount
                inRange == IF fn = "setMaxFlashLoanAmount" THEN v > 0
                           ELSE 0 < v /\ v < 10000
                accepted == lastCall'.sender = "owner" /\ inRange
                Stored(old, new, name) ==
                    new = IF fn = name /\ accepted THEN v ELSE old
            IN  /\ lastCall'.outcome = IF accepted THEN "Done" ELSE "Aborted"
                /\ Stored(maxFlashLoanAmount, maxFlashLoanAmount', "setMaxFlashLoanAmount")
                /\ Stored(minProfitBps, minProfitBps', "setMinProfitBps")
                /\ Stored(maxPriceDeviation, maxPriceDeviation', "setMaxPriceDeviation")
                /\ Stored(maxSlippage, maxSlippage', "setMaxSlippage")
                /\ lastCall'.sender # "owner" =>
                      lastCall'.causeMsg = "Ownable: caller is not the owner"]_vars

C32_Witness ==
    /\ lastCall.op = "setMaxPriceDeviation"
    /\ lastCall.outcome = "Done"
    /\ maxPriceDeviation = 250
    /\ maxPriceDeviation # DefaultMaxPriceDeviation

\* C33 (as stated): emergencyWithdraw succeeds exactly when the owner calls it
\* with a non-zero token, a non-zero recipient and a non-zero contract
\* balance; on success the contract's balance of the token becomes 0 and the
\* recipient's balance grows by exactly the balance the contract held; in
\* every other case it reverts and no balance changes.
C33_WithdrawsEverything ==
    [][lastCall'.op = "emergencyWithdraw" =>
        LET token == lastCall'.asset
            held == lastCall'.amount
            to == lastCall'.outcome
        IN  IF /\ lastCall'.sender = "owner"
               /\ token # NoToken
               /\ lastCall'.err = NoErr
            THEN /\ held > 0
                 /\ to \in Recipients \ {NoToken}
                 /\ bal'[token]["arb"] = 0
                 /\ bal'[token][to] = bal[token][to] + held
            ELSE /\ lastCall'.outcome = "Aborted"
                 /\ UNCHANGED <<contractVars, ledgerVars>>]_vars

\* C33 (amended): as above for a recipient other than the contract itself;
\* with the contract itself as recipient the call succeeds and every balance
\* stays as it was.  A call by the owner with non-zero token, non-zero
\* recipient and non-zero balance always succeeds.
C33_WithdrawsEverythingToOthers ==
    [][lastCall'.op = "emergencyWithdraw" =>
        LET token == lastCall'.asset
            held == lastCall'.amount
            to == lastCall'.outcome
        IN  IF /\ lastCall'.sender = "owner"
               /\ token # NoToken
               /\ lastCall'.err = NoErr
            THEN /\ held > 0
                 /\ held = bal[token]["arb"]
                 /\ to \in Recipients \ {NoToken}
                 /\ to # "arb" => /\ bal'[token]["arb"] = 0
                                  /\ bal'[token][to] = bal[token][to] + held
                 /\ to = "arb" => bal' = bal
                 /\ \A t \in Tokens, h \in Holders \cup Accounts :
                       (t # token \/ h \notin {"arb", to}) => bal'[t][h] = bal[t][h]
                 /\ UNCHANGED <<contractVars, allowance>>
            ELSE /\ lastCall'.outcome = "Aborted"
                 /\ \/ lastCall'.sender # "owner"
                    \/ token = NoToken
                    \/ lastCall'.causeMsg = "Invalid recipient"
                    \/ bal[token]["arb"] = 0
                 /\ UNCHANGED <<contractVars, ledgerVars>>]_vars

C33_Witness ==
    /\ lastCall.op = "emergencyWithdraw"
    /\ lastCall.outcome = "owner"
    /\ lastCall.amount > 0
    /\ bal["TKA"]["owner"] = lastCall.amount
    /\ bal["TKA"]["arb"] = 0

C35_OnlyPoolAndSelf ==
    [][lastCall'.op \in {"executeOperation", "_executeArbitrage", "flashLoanSimple"} =>
        /\ lastCall'.outcome = "Aborted"
        /\ lastCall'.cause = "UnauthorizedCaller"
        /\ \A k \in 1..Len(lastCall'.tr) : lastCall'.tr[k] = "Borrowed"
        /\ lastCall'.obs.received1 = -1
        /\ UNCHANGED <<contractVars, ledgerVars>>]_vars

C35_Witness ==
    /\ lastCall.op = "flashLoanSimple"
    /\ lastCall.sender = "user1"
    /\ lastCall.tr = <<"Borrowed">>
    /\ lastCall.cause = "UnauthorizedCaller"
    /\ intermediateToken # NoToken
    /\ successfulTrades > 0

C37_OffchainImpliesOnchain ==
    (calc.fn = "QuoteAndSettle" /\ calc.val.profitable) =>
        calc.val.cause # "InsufficientProfit"

\* C38: at any time at most one 'block' listener is registered for each
\* pair and at most one health-check timer is set, also after main() has
\* been run again.
C38_OneHandlerPerPair ==
    /\ \A n \in PairNames : Len(handlers.main.blockHandlers[n]) <= 1
    /\ handlers.main.healthTimers <= 1

\* C39: every iteration of the main loop after the first starts only after a
\* wait: 3000 ms when the iteration before it ran to the end of the body,
\* 5000 ms when it ended in the catch block, and never 0.
C39_WaitBetweenIterations ==
    backoff.loop.iteration > 1 =>
        /\ backoff.loop.waited \in {3000, 5000}
        /\ backoff.loop.previous = "error" <=> backoff.loop.waited = 5000

\* C40: an opportunity that calculateProfit returns and that passes the
\* monitor's own test (profit above 5) keeps the configured risk limits: its
\* profit is at least RISK_MANAGEMENT.minProfit, its ROI (profit over gas
\* cost, in percent) lies between minROI and maxROI, and its size is at most
\* 3% of the smaller reserve.
C40_WithinRiskLimits ==
    (/\ sizing.made
     /\ ~sizing.result.null
     /\ sizing.result.profit > 5 * ProfitUnit) =>
        /\ sizing.result.profit >= RISK_MANAGEMENT.minProfit * ProfitUnit
        /\ sizing.result.profit * 100
               >= RISK_MANAGEMENT.minROI * sizing.gasCostUSD * ProfitUnit
        /\ sizing.result.profit * 100
               <= RISK_MANAGEMENT.maxROI * sizing.gasCostUSD * ProfitUnit
        /\ sizing.result.optimalSize <= sizing.minReserves * 3

==============================================================================
